---- MODULE Spec2Model ----
(***************************************************************************)
(* media_scrapy: the structure matcher and command generator of            *)
(* media_scrapy/conf.py (SiteConfig, StructureNode, UrlInfo, get_links),   *)
(* driven by the crawl loop of media_scrapy/spiders.py (MainSpider).       *)
(*                                                                         *)
(* Conventions                                                             *)
(*  - A structure tree is a function from structure paths (sequences of   *)
(*    0-based child indices, <<>> is the root) to node records.            *)
(*  - Python's None is the record None; every optional value is a record  *)
(*    with a field "kind", so that it can be compared with None.           *)
(*  - A file path is a sequence of one-character strings; os.path.join     *)
(*    and os.path.dirname are computed on the characters.                  *)
(*  - A raised exception is a result record whose field "raised" names the *)
(*    exception and whose command list is empty.                           *)
(*  - Ghost values (not in the code).  A UrlInfo carries "trail": the      *)
(*    file-path components added to it and not dropped since, each with    *)
(*    the structure path of the node that contributed it.  A command       *)
(*    carries "src": the structure path of the node it was generated for,  *)
(*    the candidate link it came from, the pass that generated it and the  *)
(*    trail of the UrlInfo it was made of.                                 *)
(***************************************************************************)
EXTENDS Integers, Sequences, FiniteSets, TLC

VARIABLES config, pc, req, res, result, structure, parsed, inflight, done, candidates,
          files, pipeline, written

\* the crawl: the site config, the request in flight, its response, the result of parse
crawl_vars == <<config, pc, req, res, result>>

\* the parser: a structure definition and what parse_structure_list makes of it
parser_vars == <<structure, parsed>>

\* the crawl engine: the requests in flight, and the calls of parse made so far
engine_vars == <<inflight, done>>

\* the debugger: what get_simulated_command_candidates_for_url returned
debug_vars == <<candidates>>

\* the item pipelines: the files on disk, the items being processed, and
\* the items whose file the pipelines have written
pipeline_vars == <<files, pipeline, written>>

\* what the crawl leaves alone
outside_crawl == <<parser_vars, engine_vars, debug_vars, pipeline_vars>>

vars == <<crawl_vars, parser_vars, engine_vars, debug_vars, pipeline_vars>>

\* The largest number of link elements in a response.
MaxLinks == 2

None == [kind |-> "None"]

(***************************************************************************)
(* URLs.  "u0" is the start URL, "u1" and "u2" are URLs that pages link to,  *)
(* "c0", "c1", "c2" are the URLs an as_url rule produces.                   *)
(***************************************************************************)
LinkUrls == {"u0", "u1", "u2"}

Urls == LinkUrls \cup {"c0", "c1", "c2"}

\* What an as_url rule makes of the URL it is given.
AsUrlOf(u) ==
    CASE u = "u1" -> "c1"
      [] u = "u2" -> "c2"
      [] OTHER -> u

\* What a file_path rule makes of the URL it is given: one path segment.
SegOf(u) ==
    CASE u = "u0" -> <<"0">>
      [] u = "u1" -> <<"1">>
      [] u = "u2" -> <<"2">>
      [] u = "c0" -> <<"c", "0">>
      [] u = "c1" -> <<"c", "1">>
      [] OTHER -> <<"c", "2">>

(***************************************************************************)
(* Rules (CallableComponent).  A rule is a record                          *)
(*   kind: "const"  a template without group references, or a function    *)
(*                  that ignores its arguments: returns text               *)
(*         "url"    a function of url                                      *)
(*         "match"  a template with a group reference: expanded with the   *)
(*                  groups of url_match, returned as it is when url_match  *)
(*                  is None                                                *)
(*         "none"   a function that returns None                           *)
(*   can_accept_response: whether the schema that built the rule passes    *)
(*                  responses (all but url and as_url rules)               *)
(*   acceptable_named_args: the named parameters the function declares     *)
(*   needs_response: CallableComponent.needs_response                      *)
(***************************************************************************)
\* the parameters of a rule's function that tell of the response
ResponseArgs == {"res", "content_node"}

\* Mutant of needs_response_of: either condition is enough.
needs_response_of_either(can_accept_response, acceptable_named_args) ==
    can_accept_response \/ \E arg \in ResponseArgs : arg \in acceptable_named_args

\* CallableComponent.__init__: needs_response
needs_response_of(can_accept_response, acceptable_named_args) ==
    can_accept_response /\ \E arg \in ResponseArgs : arg \in acceptable_named_args

\* CallableComponent.__init__
Rule(kind, text, can_accept_response, acceptable_named_args) ==
    [kind |-> kind,
     text |-> text,
     can_accept_response |-> can_accept_response,
     acceptable_named_args |-> acceptable_named_args,
     needs_response |-> needs_response_of(can_accept_response, acceptable_named_args)]

Str(v) == [kind |-> "str", v |-> v]

\* A url matcher: the URLs it matches, and whether it is a regular expression
\* (returns a match object) or a predicate (returns a bool).
Matcher(urls, regex) == [kind |-> "matcher", urls |-> urls, regex |-> regex]

Match(url) == [kind |-> "match", url |-> url]

Node(url_matcher, url_converter, content_node_extractor, file_content_extractor, file_path_extractor, assertion_matcher, paging) ==
    [url_matcher |-> url_matcher,
     url_converter |-> url_converter,
     content_node_extractor |-> content_node_extractor,
     file_content_extractor |-> file_content_extractor,
     file_path_extractor |-> file_path_extractor,
     assertion_matcher |-> assertion_matcher,
     paging |-> paging]

\* parse_structure_list: the root node
RootNode == Node(None, None, None, None, None, None, FALSE)

(***************************************************************************)
(* UrlInfo, ResponseUrlInfo and the commands                               *)
(***************************************************************************)
UrlInfo(url, original_url, url_match, file_path, structure_path, trail) ==
    [url |-> url,
     original_url |-> IF original_url = None THEN url ELSE original_url.v,
     url_match |-> url_match,
     file_path |-> file_path,
     structure_path |-> structure_path,
     trail |-> trail]

ResponseUrlInfo(original_url_info, r, content_node) ==
    [url |-> original_url_info.url,
     original_url |-> original_url_info.original_url,
     url_match |-> original_url_info.url_match,
     file_path |-> original_url_info.file_path,
     structure_path |-> original_url_info.structure_path,
     trail |-> original_url_info.trail,
     res |-> r,
     content_node |-> content_node]

Src(node, link, pass, trail) ==
    [node |-> node, link |-> link, pass |-> pass, trail |-> trail]

RequestUrlCommand(url, url_info, src) ==
    [type |-> "RequestUrlCommand", url |-> url, url_info |-> url_info, src |-> src]

DownloadUrlCommand(url, file_path, src) ==
    [type |-> "DownloadUrlCommand", url |-> url, file_path |-> file_path, src |-> src]

SaveFileContentCommand(url, file_path, file_content, src) ==
    [type |-> "SaveFileContentCommand", url |-> url, file_path |-> file_path,
     file_content |-> file_content, src |-> src]

Ok(commands) == [raised |-> "", commands |-> commands]

Raise(what) == [raised |-> what, commands |-> <<>>]

(***************************************************************************)
(* File paths                                                              *)
(***************************************************************************)
\* os.path.join(file_path, file_path_component) of posixpath
path_join(file_path, file_path_component) ==
    IF Len(file_path_component) > 0 /\ file_path_component[1] = "/"
    THEN file_path_component
    ELSE IF Len(file_path) = 0 \/ file_path[Len(file_path)] = "/"
         THEN file_path \o file_path_component
         ELSE file_path \o <<"/">> \o file_path_component

\* Mutant of join_file_path: the separator is forgotten.
join_file_path_without_separator(file_path, file_path_component) ==
    file_path \o file_path_component

\* UrlInfo.join_file_path
join_file_path(file_path, file_path_component) ==
    IF Len(file_path) = 0
    THEN file_path_component
    ELSE path_join(file_path, file_path_component)

\* The index of the last "/" of a path, 0 when it has none.
LastSlash(p) ==
    LET S == {i \in 1..Len(p) : p[i] = "/"}
    IN  IF S = {} THEN 0 ELSE CHOOSE i \in S : \A j \in S : j <= i

RECURSIVE StripSlashes(_)
StripSlashes(h) ==
    IF Len(h) > 0 /\ h[Len(h)] = "/" THEN StripSlashes(SubSeq(h, 1, Len(h) - 1)) ELSE h

\* os.path.dirname of posixpath
path_dirname(p) ==
    LET head == SubSeq(p, 1, LastSlash(p))
    IN  IF head # <<>> /\ \E i \in 1..Len(head) : head[i] # "/"
        THEN StripSlashes(head)
        ELSE head

(***************************************************************************)
(* Rule invocation (CallableComponent.__call__).  The result is Str(v), or  *)
(* None when the rule's function returns None.                              *)
(***************************************************************************)
\* A file_path rule applied to a UrlInfo: one path segment.
CallFilePathRule(rule, url_info) ==
    CASE rule.kind = "const" -> Str(rule.text)
      [] rule.kind = "url" -> Str(SegOf(url_info.url))
      [] rule.kind = "match" ->
            IF url_info.url_match = None
            THEN Str(rule.text)
            ELSE Str(SegOf(url_info.url_match.url))
      [] OTHER -> None

\* An as_url rule applied to a UrlInfo: a URL.
CallUrlConverterRule(rule, url_info) ==
    CASE rule.kind = "const" -> Str(rule.text)
      [] rule.kind = "url" -> Str(AsUrlOf(url_info.url))
      [] rule.kind = "match" ->
            IF url_info.url_match = None
            THEN Str(rule.text)
            ELSE Str(AsUrlOf(url_info.url_match.url))
      [] OTHER -> None

\* A file_content rule applied to a UrlInfo (kind "url") or to a
\* ResponseUrlInfo (kind "xpath", which reads content_node).
CallFileContentRule(rule, url_info) ==
    CASE rule.kind = "url" -> Str(<<"url", url_info.url>>)
      [] rule.kind = "xpath" -> Str(<<"xpath", url_info.content_node>>)
      [] OTHER -> None

\* A content rule (XPath of the content area) applied to a response: the
\* link elements of the response that lie in the area.
CallContentNodeRule(rule, r) ==
    CASE rule.kind = "main" -> Str(SelectSeq(r.links, LAMBDA el : el.main))
      [] OTHER -> None

\* An assert rule applied to a ResponseUrlInfo: TRUE, or FALSE when the
\* assertion fails (the rule raises).
CallAssertionRule(rule, url_info) ==
    CASE rule.kind = "has_links" -> url_info.content_node # <<>>
      [] OTHER -> TRUE

(***************************************************************************)
(* StructureNode.  A node is named by its structure path in config.tree.   *)
(***************************************************************************)
IsChildOf(p, path) ==
    /\ Len(p) = Len(path) + 1
    /\ SubSeq(p, 1, Len(path)) = path

\* len(self.children)
NumChildren(path) == Cardinality({p \in DOMAIN config.tree : IsChildOf(p, path)})

is_root(path) == path = <<>>

needs_no_request(path) == config.tree[path].url_matcher = None

is_leaf(path) == NumChildren(path) = 0

has_file_path_component(path) == config.tree[path].file_path_extractor # None

needs_response_for_file_path(path) ==
    IF config.tree[path].file_path_extractor = None
    THEN FALSE
    ELSE config.tree[path].file_path_extractor.needs_response

can_get_file_path_before_request(path) ==
    IF config.tree[path].file_path_extractor = None
    THEN FALSE
    ELSE ~config.tree[path].file_path_extractor.needs_response

\* Mutant of needs_response_for_file_content: the file_content rule is not asked.
needs_response_for_file_content_ignored(path) == FALSE

needs_response_for_file_content(path) ==
    IF config.tree[path].file_content_extractor = None
    THEN FALSE
    ELSE config.tree[path].file_content_extractor.needs_response

can_get_file_content_before_request(path) ==
    IF config.tree[path].file_content_extractor = None
    THEN FALSE
    ELSE ~config.tree[path].file_content_extractor.needs_response

\* get_node_by_path: TRUE when every index of the path is below len(children)
node_exists(path) == path \in DOMAIN config.tree

\* Mutant of match_url: every URL matches a node that has a matcher.
match_url_any(path, url) ==
    LET m == config.tree[path].url_matcher
    IN  IF m = None
        THEN [is_url_matched |-> FALSE, url_match |-> None]
        ELSE [is_url_matched |-> TRUE,
              url_match |-> IF m.regex THEN Match(url) ELSE None]

\* match_url: (is_url_matched, url_match)
match_url(path, url) ==
    LET m == config.tree[path].url_matcher
    IN  IF m = None
        THEN [is_url_matched |-> FALSE, url_match |-> None]
        ELSE IF url \notin m.urls
             THEN [is_url_matched |-> FALSE, url_match |-> None]
             ELSE [is_url_matched |-> TRUE,
                   url_match |-> IF m.regex THEN Match(url) ELSE None]

\* UrlInfo.add_file_path_component (by is the contributing node, for the trail)
add_file_path_component(url_info, file_path_component, by) ==
    [url_info EXCEPT
        !.file_path = join_file_path(url_info.file_path, file_path_component),
        !.trail = Append(url_info.trail, [node |-> by, comp |-> file_path_component])]

\* UrlInfo.drop_last_file_path_component: the two assertions, then the drop
drop_last_asserts(url_info) ==
    /\ 0 < Len(url_info.file_path)
    /\ path_dirname(url_info.file_path) # url_info.file_path

\* Mutant of drop_last_file_path_component: the component is kept.
drop_last_file_path_component_kept(url_info) == url_info

drop_last_file_path_component(url_info) ==
    [url_info EXCEPT
        !.file_path = path_dirname(url_info.file_path),
        !.trail = SubSeq(url_info.trail, 1, Len(url_info.trail) - 1)]

\* Mutant of convert_url: the URL is kept when the as_url rule returns None.
convert_url_keeping_url(path, url_info) ==
    IF config.tree[path].url_converter # None
       /\ CallUrlConverterRule(config.tree[path].url_converter, url_info) # None
    THEN CallUrlConverterRule(config.tree[path].url_converter, url_info)
    ELSE Str(url_info.url)

\* convert_url
convert_url(path, url_info) ==
    IF config.tree[path].url_converter # None
    THEN CallUrlConverterRule(config.tree[path].url_converter, url_info)
    ELSE Str(url_info.url)

\* get_file_path_component_before_request
get_file_path_component_before_request(path, url_info) ==
    IF can_get_file_path_before_request(path)
    THEN CallFilePathRule(config.tree[path].file_path_extractor, url_info)
    ELSE Str(<<>>)

\* get_file_path_component_after_response
get_file_path_component_after_response(path, url_info) ==
    IF needs_response_for_file_path(path)
    THEN CallFilePathRule(config.tree[path].file_path_extractor, url_info)
    ELSE Str(<<>>)

\* Mutant of update_url_info_before_request: the URL is converted before the
\* file-path component is computed.
update_url_info_before_request_converting_first(path, url_info) ==
    LET converted == convert_url(path, url_info)
    IN  IF converted = None
        THEN [raised |-> "ReturnNone", url_info |-> url_info]
        ELSE LET with_url == [url_info EXCEPT !.url = converted.v]
                 file_path_component == get_file_path_component_before_request(path, with_url)
             IN  IF file_path_component = None
                 THEN [raised |-> "ReturnNone", url_info |-> with_url]
                 ELSE [raised |-> "",
                       url_info |-> IF can_get_file_path_before_request(path)
                                    THEN add_file_path_component(with_url, file_path_component.v, path)
                                    ELSE with_url]

\* update_url_info_before_request: [raised, url_info]
update_url_info_before_request(path, url_info) ==
    LET file_path_component == get_file_path_component_before_request(path, url_info)
    IN  IF file_path_component = None
        THEN [raised |-> "ReturnNone", url_info |-> url_info]
        ELSE LET added == IF can_get_file_path_before_request(path)
                          THEN add_file_path_component(url_info, file_path_component.v, path)
                          ELSE url_info
                 converted == convert_url(path, added)
             IN  IF converted = None
                 THEN [raised |-> "ReturnNone", url_info |-> added]
                 ELSE [raised |-> "", url_info |-> [added EXCEPT !.url = converted.v]]

\* Mutant of create_response_url_info: the file-path component that needs the
\* response is not added.
create_response_url_info_without_file_path(path, url_info, r) ==
    LET extractor == config.tree[path].content_node_extractor
        content_node == IF extractor # None
                        THEN CallContentNodeRule(extractor, r)
                        ELSE Str(r.links)
    IN  IF content_node = None
        THEN [raised |-> "ReturnNone", url_info |-> url_info]
        ELSE [raised |-> "", url_info |-> ResponseUrlInfo(url_info, r, content_node.v)]

\* Mutant of create_response_url_info: the component of the file_path rule is
\* added whether or not it was added before the request.
create_response_url_info_adding_again(path, url_info, r) ==
    LET extractor == config.tree[path].content_node_extractor
        content_node == IF extractor # None
                        THEN CallContentNodeRule(extractor, r)
                        ELSE Str(r.links)
    IN  IF content_node = None
        THEN [raised |-> "ReturnNone", url_info |-> url_info]
        ELSE LET res_url_info == ResponseUrlInfo(url_info, r, content_node.v)
                 file_path_component ==
                     IF has_file_path_component(path)
                     THEN CallFilePathRule(config.tree[path].file_path_extractor, res_url_info)
                     ELSE Str(<<>>)
             IN  IF file_path_component = None
                 THEN [raised |-> "ReturnNone", url_info |-> res_url_info]
                 ELSE [raised |-> "",
                       url_info |-> IF has_file_path_component(path)
                                    THEN add_file_path_component(res_url_info,
                                             file_path_component.v, path)
                                    ELSE res_url_info]

\* Mutant of create_response_url_info: the content rule is not applied.
create_response_url_info_whole_document(path, url_info, r) ==
    LET res_url_info == ResponseUrlInfo(url_info, r, r.links)
        file_path_component == get_file_path_component_after_response(path, res_url_info)
    IN  IF file_path_component = None
        THEN [raised |-> "ReturnNone", url_info |-> res_url_info]
        ELSE [raised |-> "",
              url_info |-> IF needs_response_for_file_path(path)
                           THEN add_file_path_component(res_url_info, file_path_component.v, path)
                           ELSE res_url_info]

\* create_response_url_info: [raised, url_info]
create_response_url_info(path, url_info, r) ==
    LET extractor == config.tree[path].content_node_extractor
        content_node == IF extractor # None
                        THEN CallContentNodeRule(extractor, r)
                        ELSE Str(r.links)
    IN  IF content_node = None
        THEN [raised |-> "ReturnNone", url_info |-> url_info]
        ELSE LET res_url_info == ResponseUrlInfo(url_info, r, content_node.v)
                 file_path_component ==
                     get_file_path_component_after_response(path, res_url_info)
             IN  IF file_path_component = None
                 THEN [raised |-> "ReturnNone", url_info |-> res_url_info]
                 ELSE [raised |-> "",
                       url_info |-> IF needs_response_for_file_path(path)
                                    THEN add_file_path_component(res_url_info,
                                             file_path_component.v, path)
                                    ELSE res_url_info]

\* extract_file_content: the rule's content, or the raw content of the area
extract_file_content(path, url_info) ==
    IF config.tree[path].file_content_extractor # None
    THEN CallFileContentRule(config.tree[path].file_content_extractor, url_info)
    ELSE Str(<<"html", url_info.content_node>>)

\* extract_file_content_without_response
extract_file_content_without_response(path, url_info) ==
    CallFileContentRule(config.tree[path].file_content_extractor, url_info)

\* assert_content: TRUE unless the node's assertion fails
assert_content(path, url_info) ==
    IF config.tree[path].assertion_matcher # None
    THEN CallAssertionRule(config.tree[path].assertion_matcher, url_info)
    ELSE TRUE

(***************************************************************************)
(* get_links: the candidate links of the content area, each absolute URL   *)
(* once, in document order                                                 *)
(***************************************************************************)
RECURSIVE get_links_from(_, _, _, _)
get_links_from(content_node, k, seen_urls, results) ==
    IF k > Len(content_node)
    THEN results
    ELSE IF content_node[k].url \in seen_urls
         THEN get_links_from(content_node, k + 1, seen_urls, results)
         ELSE get_links_from(content_node, k + 1, seen_urls \cup {content_node[k].url},
                             Append(results, content_node[k].url))

\* Mutant of get_links: seen_urls is not consulted.
get_links_with_duplicates(content_node) ==
    [k \in 1..Len(content_node) |-> content_node[k].url]

\* Mutant of get_links: the links are returned last first.
get_links_reversed(content_node) ==
    LET links == get_links_from(content_node, 1, {}, <<>>)
    IN  [k \in 1..Len(links) |-> links[Len(links) + 1 - k]]

get_links(content_node) == get_links_from(content_node, 1, {}, <<>>)

\* Mutant of ResponseUrlInfo.next: the path is extended also without an index.
next_descending(url_info, url, url_match, structure_index) ==
    UrlInfo(url, None, url_match, url_info.file_path,
            url_info.structure_path
                \o <<IF structure_index = None THEN 0 ELSE structure_index.v>>,
            url_info.trail)

\* Mutant of ResponseUrlInfo.next: the children are counted from one.
next_counting_from_one(url_info, url, url_match, structure_index) ==
    UrlInfo(url, None, url_match, url_info.file_path,
            IF structure_index = None
            THEN url_info.structure_path
            ELSE url_info.structure_path \o <<structure_index.v + 1>>,
            url_info.trail)

\* ResponseUrlInfo.next
next(url_info, url, url_match, structure_index) ==
    UrlInfo(url, None, url_match, url_info.file_path,
            IF structure_index = None
            THEN url_info.structure_path
            ELSE url_info.structure_path \o <<structure_index.v>>,
            url_info.trail)

\* Mutant of ResponseUrlInfo.forward: the accumulated file path is not handed on.
forward_without_file_path(url_info, structure_index) ==
    UrlInfo(url_info.url, Str(url_info.original_url), url_info.url_match,
            <<>>, url_info.structure_path \o <<structure_index>>, <<>>)

\* ResponseUrlInfo.forward
forward(url_info, structure_index) ==
    UrlInfo(url_info.url, Str(url_info.original_url), url_info.url_match,
            url_info.file_path, url_info.structure_path \o <<structure_index>>,
            url_info.trail)

(***************************************************************************)
(* SiteConfig.get_url_commands and get_url_commands_impl.  The loops of    *)
(* the code are recursive operators that carry the command list built so   *)
(* far; an exception ends the call with no command.                        *)
(***************************************************************************)
RECURSIVE get_url_commands(_, _)
RECURSIVE get_url_commands_impl(_, _)
RECURSIVE ChildrenLoop(_, _, _, _, _, _)

\* "search next page": the loop over the candidate links of a paging node
RECURSIVE PagingLoop(_, _, _, _, _)
PagingLoop(url_info, path, link_infos, k, commands) ==
    IF k > Len(link_infos)
    THEN Ok(commands)
    ELSE LET url == link_infos[k]
             m == match_url(path, url)
         IN  IF ~m.is_url_matched
             THEN PagingLoop(url_info, path, link_infos, k + 1, commands)
             ELSE LET next_url_info == next(url_info, url, m.url_match, None)
                  IN  IF has_file_path_component(path) /\ ~drop_last_asserts(next_url_info)
                      THEN Raise("AssertionError")
                      ELSE LET dropped == IF has_file_path_component(path)
                                          THEN drop_last_file_path_component(next_url_info)
                                          ELSE next_url_info
                               updated == update_url_info_before_request(path, dropped)
                           IN  IF updated.raised # ""
                               THEN Raise(updated.raised)
                               ELSE PagingLoop(url_info, path, link_infos, k + 1,
                                        Append(commands,
                                               RequestUrlCommand(url_info.url, updated.url_info,
                                                                 Src(path, url, "paging", updated.url_info.trail))))

\* The command of one candidate link matched by a request-gated child.
MatchedLinkCommand(url_info, child, next_url_info, url) ==
    LET needs_response_for_file ==
            \/ needs_response_for_file_path(child)
            \/ needs_response_for_file_content(child)
    IN  IF is_leaf(child) /\ ~needs_response_for_file
        THEN IF can_get_file_content_before_request(child)
             THEN LET file_content ==
                          extract_file_content_without_response(child, next_url_info)
                  IN  IF file_content = None
                      THEN None
                      ELSE Str(SaveFileContentCommand(url_info.url, next_url_info.file_path,
                                                      file_content.v, Src(child, url, "child", next_url_info.trail)))
             ELSE Str(DownloadUrlCommand(next_url_info.url, next_url_info.file_path,
                                         Src(child, url, "child", next_url_info.trail)))
        ELSE Str(RequestUrlCommand(next_url_info.url, next_url_info,
                                   Src(child, url, "child", next_url_info.trail)))

\* The loop over the candidate links for one request-gated child.
RECURSIVE LinkLoop(_, _, _, _, _, _)
LinkLoop(url_info, path, structure_index, link_infos, k, commands) ==
    IF k > Len(link_infos)
    THEN Ok(commands)
    ELSE LET child == path \o <<structure_index>>
             url == link_infos[k]
             m == match_url(child, url)
         IN  IF ~m.is_url_matched
             THEN LinkLoop(url_info, path, structure_index, link_infos, k + 1, commands)
             ELSE LET updated == update_url_info_before_request(child,
                                     next(url_info, url, m.url_match, Str(structure_index)))
                  IN  IF updated.raised # ""
                      THEN Raise(updated.raised)
                      ELSE LET command == MatchedLinkCommand(url_info, child,
                                                             updated.url_info, url)
                           IN  IF command = None
                               THEN Raise("ReturnNone")
                               ELSE LinkLoop(url_info, path, structure_index, link_infos,
                                             k + 1, Append(commands, command.v))

\* One turn of the loop over the children: the commands of the child at
\* structure_index, and whether the current URL was forwarded to it.
ChildStep(url_info, path, link_infos, structure_index) ==
    LET child == path \o <<structure_index>> IN
    IF needs_no_request(child) \/ is_root(path)
    THEN LET forwarded == forward(url_info, structure_index)
             m == match_url(child, forwarded.url)
         IN  IF is_root(path) /\ ~m.is_url_matched
             THEN [raised |-> "", commands |-> <<>>, forwarded |-> FALSE]
             ELSE LET next_url_info == IF is_root(path)
                                       THEN [forwarded EXCEPT !.url_match = m.url_match]
                                       ELSE forwarded
                      updated == update_url_info_before_request(child, next_url_info)
                  IN  IF updated.raised # ""
                      THEN [raised |-> updated.raised, commands |-> <<>>, forwarded |-> TRUE]
                      ELSE LET sub_commands ==
                                   get_url_commands(url_info.res, updated.url_info)
                           IN  [raised |-> sub_commands.raised,
                                commands |-> sub_commands.commands,
                                forwarded |-> TRUE]
    ELSE LET link_commands == LinkLoop(url_info, path, structure_index, link_infos, 1, <<>>)
         IN  [raised |-> link_commands.raised,
              commands |-> link_commands.commands,
              forwarded |-> FALSE]

\* Mutant of ChildrenLoop: the loop ends at the first child the current URL is
\* forwarded to.
RECURSIVE ChildrenLoopFirstMatchWins(_, _, _, _, _, _)
ChildrenLoopFirstMatchWins(url_info, path, link_infos, structure_index, forwardable_structure_node_found, commands) ==
    IF structure_index >= NumChildren(path)
    THEN IF ~forwardable_structure_node_found /\ is_root(path)
         THEN Raise("StartUrlNotMatched")
         ELSE Ok(commands)
    ELSE LET step == ChildStep(url_info, path, link_infos, structure_index)
         IN  IF step.raised # ""
             THEN Raise(step.raised)
             ELSE IF step.forwarded /\ is_root(path)
                  THEN Ok(commands \o step.commands)
                  ELSE ChildrenLoopFirstMatchWins(url_info, path, link_infos,
                           structure_index + 1,
                           forwardable_structure_node_found \/ step.forwarded,
                           commands \o step.commands)

\* Mutant of ChildrenLoop: when a child raises, the commands made so far are
\* returned with the error.
RECURSIVE ChildrenLoopKeepingCommands(_, _, _, _, _, _)
ChildrenLoopKeepingCommands(url_info, path, link_infos, structure_index, forwardable_structure_node_found, commands) ==
    IF structure_index >= NumChildren(path)
    THEN IF ~forwardable_structure_node_found /\ is_root(path)
         THEN Raise("StartUrlNotMatched")
         ELSE Ok(commands)
    ELSE LET step == ChildStep(url_info, path, link_infos, structure_index)
         IN  IF step.raised # ""
             THEN [raised |-> step.raised, commands |-> commands]
             ELSE ChildrenLoopKeepingCommands(url_info, path, link_infos,
                      structure_index + 1,
                      forwardable_structure_node_found \/ step.forwarded,
                      commands \o step.commands)

\* The loop over the children of a node, and the check that follows it.
ChildrenLoop(url_info, path, link_infos, structure_index, forwardable_structure_node_found, commands) ==
    IF structure_index >= NumChildren(path)
    THEN IF ~forwardable_structure_node_found /\ is_root(path)
         THEN Raise("StartUrlNotMatched")
         ELSE Ok(commands)
    ELSE LET step == ChildStep(url_info, path, link_infos, structure_index)
         IN  IF step.raised # ""
             THEN Raise(step.raised)
             ELSE ChildrenLoop(url_info, path, link_infos, structure_index + 1,
                               forwardable_structure_node_found \/ step.forwarded,
                               commands \o step.commands)

\* The command of a response bound to a leaf.
LeafCommands(url_info, path) ==
    LET file_content == extract_file_content(path, url_info)
    IN  IF file_content = None
        THEN Raise("ReturnNone")
        ELSE Ok(<<SaveFileContentCommand(url_info.url, url_info.file_path,
                                         file_content.v, Src(path, url_info.url, "leaf", url_info.trail))>>)

\* Mutant of get_url_commands_impl: the children are walked before the paging pass.
get_url_commands_impl_children_first(url_info, path) ==
    IF is_leaf(path)
    THEN LeafCommands(url_info, path)
    ELSE LET link_infos == get_links(url_info.content_node)
             child_commands == ChildrenLoop(url_info, path, link_infos, 0, FALSE, <<>>)
         IN  IF child_commands.raised # "" \/ ~config.tree[path].paging
             THEN child_commands
             ELSE PagingLoop(url_info, path, link_infos, 1, child_commands.commands)

\* Mutant of get_url_commands_impl: a page that links to a next page gives only
\* the paging commands.
get_url_commands_impl_paging_alone(url_info, path) ==
    IF is_leaf(path)
    THEN LeafCommands(url_info, path)
    ELSE LET link_infos == get_links(url_info.content_node)
             paging_commands == IF config.tree[path].paging
                                THEN PagingLoop(url_info, path, link_infos, 1, <<>>)
                                ELSE Ok(<<>>)
         IN  IF paging_commands.raised # "" \/ paging_commands.commands # <<>>
             THEN paging_commands
             ELSE ChildrenLoop(url_info, path, link_infos, 0, FALSE,
                               paging_commands.commands)

get_url_commands_impl(url_info, path) ==
    IF is_leaf(path)
    THEN LeafCommands(url_info, path)
    ELSE LET link_infos == get_links(url_info.content_node)
             paging_commands == IF config.tree[path].paging
                                THEN PagingLoop(url_info, path, link_infos, 1, <<>>)
                                ELSE Ok(<<>>)
         IN  IF paging_commands.raised # ""
             THEN paging_commands
             ELSE ChildrenLoop(url_info, path, link_infos, 0, FALSE,
                               paging_commands.commands)

\* Mutant of get_url_commands: assert_content is not called.
get_url_commands_without_assert(r, req_url_info) ==
    IF ~node_exists(req_url_info.structure_path)
    THEN Raise("AssertionError")
    ELSE LET path == req_url_info.structure_path
             bound == create_response_url_info(path, req_url_info, r)
         IN  IF bound.raised # ""
             THEN Raise(bound.raised)
             ELSE get_url_commands_impl(bound.url_info, path)

\* get_response_url_info_and_structure_node, assert_content, then the walk
get_url_commands(r, req_url_info) ==
    IF ~node_exists(req_url_info.structure_path)
    THEN Raise("AssertionError")
    ELSE LET path == req_url_info.structure_path
             bound == create_response_url_info(path, req_url_info, r)
         IN  IF bound.raised # ""
             THEN Raise(bound.raised)
             ELSE IF ~assert_content(path, bound.url_info)
                  THEN Raise("AssertionError")
                  ELSE get_url_commands_impl(bound.url_info, path)

\* Mutant of get_start_command: the start request is bound to the first root child.
get_start_command_at_first_child ==
    LET url_info == UrlInfo(config.start_url, None, None, <<>>, <<0>>, <<>>)
    IN  RequestUrlCommand(url_info.url, url_info, Src(<<>>, url_info.url, "start", <<>>))

\* SiteConfig.get_start_command
get_start_command ==
    LET url_info == UrlInfo(config.start_url, None, None, <<>>, <<>>, <<>>)
    IN  RequestUrlCommand(url_info.url, url_info, Src(<<>>, url_info.url, "start", <<>>))

(***************************************************************************)
(* Simulation: the nodes a bare URL could be requested for                 *)
(***************************************************************************)
\* get_tentative_file_path_component: the template as it is written, or
\* "__unknown__" when the rule is a function that cannot be called without
\* arguments
get_tentative_file_path_component(path) ==
    LET rule == config.tree[path].file_path_extractor
    IN  IF rule # None /\ rule.kind \in {"const", "match"}
        THEN rule.text
        ELSE <<"__unknown__">>

RECURSIVE get_simulated_url_info_list_impl(_, _, _, _, _, _)
RECURSIVE SimulatedChildrenLoop(_, _, _, _, _, _, _, _)

\* the loop of get_simulated_url_info_list_impl over the children, from index on
SimulatedChildrenLoop(path, url, file_path, structure_path, is_matched, url_match, index, url_info_list) ==
    IF index >= NumChildren(path)
    THEN [raised |-> "", url_info_list |-> url_info_list]
    ELSE LET child_url_info_list ==
                 get_simulated_url_info_list_impl(path \o <<index>>, url, file_path,
                     structure_path \o <<index>>, is_matched, url_match)
         IN  IF child_url_info_list.raised # ""
             THEN [raised |-> child_url_info_list.raised, url_info_list |-> <<>>]
             ELSE SimulatedChildrenLoop(path, url, file_path, structure_path, is_matched,
                      url_match, index + 1,
                      url_info_list \o child_url_info_list.url_info_list)

\* StructureNode.get_simulated_url_info_list_impl: [raised, url_info_list]
get_simulated_url_info_list_impl(path, url, file_path, structure_path, is_parent_matched, parent_url_match) ==
    LET matched == IF needs_no_request(path)
                   THEN [is_url_matched |-> is_parent_matched, url_match |-> parent_url_match]
                   ELSE match_url(path, url)
        updated == update_url_info_before_request(path,
                       UrlInfo(url, None, matched.url_match, file_path, structure_path, <<>>))
        next_file_path == IF has_file_path_component(path)
                          THEN join_file_path(file_path, get_tentative_file_path_component(path))
                          ELSE file_path
    IN  IF matched.is_url_matched /\ updated.raised # ""
        THEN [raised |-> updated.raised, url_info_list |-> <<>>]
        ELSE SimulatedChildrenLoop(path, url, next_file_path, structure_path,
                 matched.is_url_matched, matched.url_match, 0,
                 IF matched.is_url_matched THEN <<updated.url_info>> ELSE <<>>)

\* Mutant of get_simulated_url_info_list: the walk starts as if the parent of the root had matched.
get_simulated_url_info_list_from_matched_root(url) ==
    get_simulated_url_info_list_impl(<<>>, url, <<>>, <<>>, TRUE, None)

\* StructureNode.get_simulated_url_info_list
get_simulated_url_info_list(url) ==
    get_simulated_url_info_list_impl(<<>>, url, <<>>, <<>>, FALSE, None)

\* SiteConfig.get_simulated_command_candidates_for_url: [raised, candidates],
\* a candidate being the node the source description is made of and the command
get_simulated_command_candidates_for_url(url) ==
    LET simulated == get_simulated_url_info_list(url)
        url_info_list == simulated.url_info_list
    IN  IF simulated.raised # ""
        THEN [raised |-> simulated.raised, candidates |-> <<>>]
        ELSE IF \E k \in 1..Len(url_info_list) : ~node_exists(url_info_list[k].structure_path)
        THEN [raised |-> "AssertionError", candidates |-> <<>>]
        ELSE [raised |-> "",
              candidates |->
                  [k \in 1..Len(url_info_list) |->
                      [source |-> config.tree[url_info_list[k].structure_path],
                       command |-> RequestUrlCommand(url_info_list[k].url, url_info_list[k],
                                       Src(url_info_list[k].structure_path, url, "simulated", <<>>))]]]

(***************************************************************************)
(* Site configurations: the structure definitions the crawl is checked on. *)
(***************************************************************************)
StartUrlMatcher == Matcher({"u0"}, TRUE)

StartUrlPredicate == Matcher({"u0"}, FALSE)

PageMatcher == Matcher({"u0", "u2"}, TRUE)

ContentMatcher == Matcher({"u1", "u2"}, TRUE)

OneMatcher == Matcher({"u1"}, TRUE)

OnePredicate == Matcher({"u1"}, FALSE)

TwoMatcher == Matcher({"u2"}, TRUE)

\* {"url": r"u0", "file_path": "f"}
Home == Node(StartUrlMatcher, None, None, None, Rule("const", <<"f">>, TRUE, {"url_match"}), None, FALSE)

\* {"url": lambda url: url == "u0"}
Plain == Node(StartUrlPredicate, None, None, None, None, None, FALSE)

\* {"url": r"u0|u2", "file_path": r"\g<1>", "paging": True}
Page == Node(PageMatcher, None, None, None, Rule("match", <<"g">>, TRUE, {"url_match"}), None, TRUE)

\* {"url": r"u0|u2", "file_path": lambda res, url: ..., "paging": True}
PageR == Node(PageMatcher, None, None, None, Rule("url", <<>>, TRUE, {"res", "url"}), None, TRUE)

\* {"url": r"u0|u2", "paging": True}
PageBare == Node(PageMatcher, None, None, None, None, None, TRUE)

\* {"url": r"u0", "content": "//main", "assert": "//a"}
Area == Node(StartUrlMatcher, None, Rule("main", <<>>, TRUE, {"res"}), None, None,
             Rule("has_links", <<>>, TRUE, {"content_node"}), FALSE)

\* {"url": r"u1", "file_path": "g"}
Other == Node(OneMatcher, None, None, None, Rule("const", <<"g">>, TRUE, {"url_match"}), None, FALSE)

\* {"url": r"u1|u2", "file_path": r"\g<1>"}
Dl == Node(ContentMatcher, None, None, None, Rule("match", <<"g">>, TRUE, {"url_match"}), None, FALSE)

\* {"url": r"u1", "as_url": r"c\g<1>", "file_path": r"\g<1>", "file_content": lambda url: ...}
Save == Node(OneMatcher, Rule("match", "c0", FALSE, {"url_match"}), None, Rule("url", <<>>, TRUE, {"url"}),
             Rule("match", <<"g">>, TRUE, {"url_match"}), None, FALSE)

\* {"url": lambda url: url == "u1", "file_path": lambda res, url: ...}
FpR == Node(OnePredicate, None, None, None, Rule("url", <<>>, TRUE, {"res", "url"}), None, FALSE)

\* {"url": r"u1|u2", "file_path": "h", "file_content": "//p/text()", "assert": "//a"}
FcR == Node(ContentMatcher, None, None, Rule("xpath", <<>>, TRUE, {"content_node"}),
            Rule("const", <<"h">>, TRUE, {"url_match"}), Rule("has_links", <<>>, TRUE, {"content_node"}), FALSE)

\* {"file_path": "g"}
Pass == Node(None, None, None, None, Rule("const", <<"g">>, TRUE, {"url_match"}), None, FALSE)

\* {"content": "//main", "assert": "//a"}
PassA == Node(None, None, Rule("main", <<>>, TRUE, {"res"}), None, None, Rule("has_links", <<>>, TRUE, {"content_node"}), FALSE)

\* "u1"
Bare == Node(OneMatcher, None, None, None, None, None, FALSE)

\* {"url": r"u2", "file_path": lambda url: None}
NoneFp == Node(TwoMatcher, None, None, None, Rule("none", <<>>, TRUE, {"url"}), None, FALSE)

\* {"url": r"u1", "as_url": lambda url: None}
NoneConv == Node(OneMatcher, Rule("none", <<>>, FALSE, {"url"}), None, None, None, None, FALSE)

\* {"url": r"u1", "file_path": "g", "file_content": lambda url: None}
NoneFc == Node(OneMatcher, None, None, Rule("none", <<>>, TRUE, {"url"}), Rule("const", <<"g">>, TRUE, {"url_match"}), None, FALSE)

\* {"url": r"u1", "file_path": "g", "file_content": lambda res: None}
NoneFcR == Node(OneMatcher, None, None, Rule("none", <<>>, TRUE, {"res"}), Rule("const", <<"g">>, TRUE, {"url_match"}), None, FALSE)

\* {"url": r"u1", "file_path": lambda res: None}
NoneFpR == Node(OneMatcher, None, None, None, Rule("none", <<>>, TRUE, {"res"}), None, FALSE)

\* {"url": r"u0", "content": lambda res: None}
NoneArea == Node(StartUrlMatcher, None, Rule("none", <<>>, TRUE, {"res"}), None, None, None, FALSE)

\* {"url": r"u1|u2", "as_url": lambda url, res=None: ..., "file_path": lambda url: ...}
Conv == Node(ContentMatcher, Rule("url", "c0", FALSE, {"url", "res"}), None, None,
             Rule("url", <<>>, TRUE, {"url"}), None, FALSE)

\* {"url": r"u0|u1", "content": "//main", "paging": True}
PageArea == Node(Matcher({"u0", "u1"}, TRUE), None, Rule("main", <<>>, TRUE, {"res"}), None, None, None, TRUE)

\* {"as_url": r"c\g<1>", "file_path": lambda url: ...}
PassConv == Node(None, Rule("match", "c0", FALSE, {"url_match"}), None, None, Rule("url", <<>>, TRUE, {"url"}), None, FALSE)

TopKinds == {Home, Plain, Page, PageR, Area, Other, Pass}

SubKinds == {Dl, Save, FpR, FcR, Pass, PassA, Bare, NoneFp, Conv, Page}

BranchTopKinds == {Home, Page, PageR, Area, PageBare}

MidKinds == {Pass, Bare, FpR, Page}

\* nodes with a rule that returns None
NoneKinds == {NoneFp, NoneConv, NoneFc, NoneFcR, NoneFpR}

Tree0 == <<>> :> RootNode

Tree1(a) == Tree0 @@ (<<0>> :> a)

Tree2(a, b) == Tree1(a) @@ (<<0, 0>> :> b)

TreeR(a, b) == Tree1(a) @@ (<<1>> :> b)

TreeB(a, b, c) == Tree2(a, b) @@ (<<0, 1>> :> c)

TreeC(a, b, c) == Tree2(a, b) @@ (<<0, 0, 0>> :> c)

TreeRR(a, b, c, d) == TreeR(a, c) @@ (<<0, 0>> :> b) @@ (<<1, 0>> :> d)

Trees ==
    {Tree0}
    \cup {Tree1(a) : a \in TopKinds \cup SubKinds}
    \cup {Tree2(a, b) : a \in TopKinds, b \in SubKinds}
    \cup {TreeR(a, b) : a \in TopKinds, b \in TopKinds}
    \cup {TreeB(a, b, c) : a \in BranchTopKinds, b \in SubKinds, c \in SubKinds}
    \cup {TreeC(a, b, c) : a \in BranchTopKinds, b \in MidKinds, c \in SubKinds}
    \cup {TreeRR(a, b, c, d) : a \in {Other, Home}, b \in {Dl, Bare},
                               c \in {Home, Plain}, d \in {Dl, FcR}}
    \cup {Tree2(a, b) : a \in {Home, Page, NoneArea}, b \in NoneKinds \cup {Dl}}
    \cup {TreeB(Home, Dl, b) : b \in NoneKinds}
    \cup {TreeC(Home, Pass, b) : b \in NoneKinds}
    \cup {TreeB(Page, Dl, PassConv), TreeB(PageR, PassConv, Dl), TreeC(Home, Page, PassConv),
          TreeC(Page, Bare, PassConv), TreeC(Home, Bare, PassConv)}
    \cup {TreeC(Home, Conv, Dl), TreeC(Page, Conv, Bare)}
    \cup {Tree2(PageArea, Dl), TreeB(PageArea, Bare, Pass)}

\* Mutant of check: nothing is checked.
check_nothing(tree) == TRUE

\* StructureNode.check: a node with a file_content rule is a leaf
check(tree) ==
    \A p \in DOMAIN tree :
        tree[p].file_content_extractor # None =>
            ~\E q \in DOMAIN tree : IsChildOf(q, p)

\* the configurations whose start URL is "u1"
OtherStartTrees == {Tree0, Tree1(Other), Tree2(Other, Dl), TreeR(Home, Other)}

Configs ==
    {[start_url |-> "u0", tree |-> t] : t \in {t \in Trees : check(t)}}
    \cup {[start_url |-> "u1", tree |-> t] : t \in OtherStartTrees}

(***************************************************************************)
(* The structure parser.  A structure definition is a list whose elements  *)
(* are node definitions (a dict or a str, here the node parse_structure     *)
(* makes of it) and branches (a list of structure definitions).            *)
(***************************************************************************)
NodeDef(node) == [t |-> "node", node |-> node, lists |-> <<>>]

BranchDef(lists) == [t |-> "branch", node |-> None, lists |-> lists]

\* len(self.children) of the node at path in a tree under construction
len_children(tree, path) == Cardinality({p \in DOMAIN tree : IsChildOf(p, path)})

\* StructureNode.add(node) of a node without children: appended as the last child
add(tree, parent_node, node) ==
    tree @@ ((parent_node \o <<len_children(tree, parent_node)>>) :> node)

\* for sub_node in sub_root_node.children: sub_root_node.delete(sub_node);
\* parent_node.add(sub_node) -- the children of the sub root, with their
\* subtrees, become the last children of parent_node, in their order
graft(tree, parent_node, sub_tree) ==
    LET n == len_children(tree, parent_node)
        moved == DOMAIN sub_tree \ {<<>>}
        at(q) == parent_node \o <<n + q[1]>> \o Tail(q)
        new == {at(q) : q \in moved}
    IN  tree @@ [p \in new |-> sub_tree[CHOOSE q \in moved : at(q) = p]]

Parsed(tree) == [raised |-> "", tree |-> tree]

Rejected(what) == [raised |-> what, tree |-> <<>>]

RECURSIVE parse_structure_list(_)
RECURSIVE parse_structure_list_loop(_, _, _, _, _)
RECURSIVE parse_structure_list_loop_merging(_, _, _, _, _)
RECURSIVE graft_loop(_, _, _, _)

\* the inner loop of parse_structure_list over the lists of a branch
graft_loop(lists, k, tree, parent_node) ==
    IF k > Len(lists)
    THEN Parsed(tree)
    ELSE LET sub == parse_structure_list(lists[k])
         IN  IF sub.raised # ""
             THEN sub
             ELSE graft_loop(lists, k + 1, graft(tree, parent_node, sub.tree), parent_node)

\* Mutant of parse_structure_list_loop: after_branch_node is not consulted.
parse_structure_list_loop_merging(defs, i, tree, parent_node, after_branch_node) ==
    IF i > Len(defs)
    THEN IF check(tree)
         THEN Parsed(tree)
         ELSE Rejected("file_content can be only in last definition")
    ELSE IF defs[i].t = "node"
    THEN LET path == parent_node \o <<len_children(tree, parent_node)>>
         IN  parse_structure_list_loop_merging(defs, i + 1, add(tree, parent_node, defs[i].node), path, FALSE)
    ELSE LET g == graft_loop(defs[i].lists, 1, tree, parent_node)
         IN  IF g.raised # ""
             THEN g
             ELSE parse_structure_list_loop_merging(defs, i + 1, g.tree, parent_node, TRUE)

\* the loop of parse_structure_list from element i on, and root_node.check()
parse_structure_list_loop(defs, i, tree, parent_node, after_branch_node) ==
    IF i > Len(defs)
    THEN IF check(tree)
         THEN Parsed(tree)
         ELSE Rejected("file_content can be only in last definition")
    ELSE IF after_branch_node
    THEN Rejected("Once branched structure nodes cannot be merged in a single node")
    ELSE IF defs[i].t = "node"
    THEN LET path == parent_node \o <<len_children(tree, parent_node)>>
         IN  parse_structure_list_loop(defs, i + 1, add(tree, parent_node, defs[i].node), path, FALSE)
    ELSE LET g == graft_loop(defs[i].lists, 1, tree, parent_node)
         IN  IF g.raised # ""
             THEN g
             ELSE parse_structure_list_loop(defs, i + 1, g.tree, parent_node, TRUE)

parse_structure_list(structure_node_def_list) ==
    parse_structure_list_loop(structure_node_def_list, 1, <<>> :> RootNode, <<>>, FALSE)

\* The node definitions the parser is given: "u1" and
\* {"url": r"u1|u2", "file_path": "h", "file_content": "//p/text()", "assert": "//a"}
ParserKinds == {Bare, FcR}

\* definitions without a branch
Chains ==
    {<<>>}
    \cup {<<NodeDef(a)>> : a \in ParserKinds}
    \cup {<<NodeDef(a), NodeDef(b)>> : a \in ParserKinds, b \in ParserKinds}

\* the definitions a branch lists: chains, and definitions that branch again
SubDefinitions ==
    Chains
    \cup {<<BranchDef(<<c>>)>> : c \in Chains}
    \cup {<<BranchDef(<<c>>), NodeDef(a)>> : c \in Chains, a \in ParserKinds}

Branches ==
    {<<>>}
    \cup {<<c>> : c \in SubDefinitions}
    \cup {<<c, d>> : c \in SubDefinitions, d \in Chains}

\* what follows a branch in a definition
Followers ==
    {<<>>, <<BranchDef(<<>>)>>, <<BranchDef(<<<<NodeDef(Bare)>>>>)>>}
    \cup {<<NodeDef(a)>> : a \in ParserKinds}

Definitions ==
    Chains
    \cup {c \o <<BranchDef(b)>> \o e : c \in Chains, b \in Branches, e \in Followers}

(***************************************************************************)
(* Responses: the link elements of a page, in document order.  A link      *)
(* element carries the absolute URL of its href or src and whether it lies *)
(* in the area the content rule "//main" selects.                          *)
(***************************************************************************)
LinkEls ==
    {[url |-> u, main |-> TRUE] : u \in LinkUrls} \cup {[url |-> "u1", main |-> FALSE]}

Responses == UNION {[1..n -> LinkEls] : n \in 0..MaxLinks}

(***************************************************************************)
(* The crawl (MainSpider): the start request, the responses the crawl      *)
(* engine delivers, parse, and the requests made of RequestUrlCommands.    *)
(***************************************************************************)
Init ==
    /\ config \in Configs
    /\ pc = "start"
    /\ req = None
    /\ res = None
    /\ result = Ok(<<>>)
    /\ structure = <<>>
    /\ parsed = None
    /\ inflight = {}
    /\ done = {}
    /\ candidates = None
    /\ files = {}
    /\ pipeline = <<>>
    /\ written = {}

\* MainSpider.get_start_request
Start ==
    /\ pc = "start"
    /\ req' = get_start_command.url_info
    /\ pc' = "requested"
    /\ UNCHANGED <<config, res, result>>
    /\ UNCHANGED outside_crawl

\* The crawl engine delivers a response to the request in flight.
Respond(links) ==
    /\ pc = "requested"
    /\ res' = [links |-> links]
    /\ pc' = "responded"
    /\ UNCHANGED <<config, req, result>>
    /\ UNCHANGED outside_crawl

\* MainSpider.parse
Parse ==
    /\ pc = "responded"
    /\ result' = get_url_commands(res, req)
    /\ pc' = "parsed"
    /\ UNCHANGED <<config, req, res>>
    /\ UNCHANGED outside_crawl

\* MainSpider.create_request for a RequestUrlCommand that parse yielded
Follow(i) ==
    /\ pc = "parsed"
    /\ result.commands[i].type = "RequestUrlCommand"
    /\ req' = result.commands[i].url_info
    /\ res' = None
    /\ result' = Ok(<<>>)
    /\ pc' = "requested"
    /\ UNCHANGED config
    /\ UNCHANGED outside_crawl

Next ==
    \/ Start
    \/ \E links \in Responses : Respond(links)
    \/ Parse
    \/ \E i \in 1..Len(result.commands) : Follow(i)

Spec == Init /\ [][Next]_vars

(***************************************************************************)
(* Construction of a SiteConfig from a structure definition.               *)
(***************************************************************************)
ParserInit ==
    /\ structure \in Definitions
    /\ parsed = None
    /\ config = [start_url |-> "u0", tree |-> Tree0]
    /\ pc = "define"
    /\ req = None
    /\ res = None
    /\ result = Ok(<<>>)
    /\ inflight = {}
    /\ done = {}
    /\ candidates = None
    /\ files = {}
    /\ pipeline = <<>>
    /\ written = {}

\* SiteConfig.__init__: self.root_structure_node = parse_structure_list(conf_def.structure)
Construct ==
    /\ pc = "define"
    /\ parsed' = parse_structure_list(structure)
    /\ config' = IF parsed'.raised = "" THEN [config EXCEPT !.tree = parsed'.tree] ELSE config
    /\ pc' = IF parsed'.raised = "" THEN "constructed" ELSE "rejected"
    /\ UNCHANGED <<structure, req, res, result, engine_vars, debug_vars, pipeline_vars>>

ParserNext == Construct

ParserSpec == ParserInit /\ [][ParserNext]_vars

(***************************************************************************)
(* Simulation of a URL against a constructed SiteConfig.                   *)
(***************************************************************************)
SimInit ==
    /\ config \in Configs
    /\ pc = "start"
    /\ req = None
    /\ res = None
    /\ result = Ok(<<>>)
    /\ structure = <<>>
    /\ parsed = None
    /\ inflight = {}
    /\ done = {}
    /\ candidates = None
    /\ files = {}
    /\ pipeline = <<>>
    /\ written = {}

\* SiteConfig.get_simulated_command_candidates_for_url(url)
Simulate(url) ==
    /\ candidates' = [url |-> url] @@ get_simulated_command_candidates_for_url(url)
    /\ UNCHANGED <<crawl_vars, parser_vars, engine_vars, pipeline_vars>>

SimNext == \E url \in LinkUrls : Simulate(url)

SimSpec == SimInit /\ [][SimNext]_vars

(***************************************************************************)
(* The crawl engine with several requests in flight: the responses come    *)
(* back in any order, and parse is called on each as it comes.             *)
(***************************************************************************)
\* The largest number of calls of parse in a crawl.
MaxCalls == 3

ConcurrentConfigs ==
    {[start_url |-> "u0", tree |-> t] :
        t \in {TreeB(a, b, c) : a \in {Page, PageR}, b \in {FpR, FcR}, c \in {FcR, Dl, PassA}}
              \cup {TreeC(Page, Page, FcR)}}

ConcurrentResponses ==
    {<<>>,
     <<[url |-> "u1", main |-> TRUE], [url |-> "u2", main |-> TRUE]>>,
     <<[url |-> "u2", main |-> TRUE], [url |-> "u1", main |-> FALSE]>>}

ConcurrentInit ==
    /\ config \in ConcurrentConfigs
    /\ pc = "start"
    /\ req = None
    /\ res = None
    /\ result = Ok(<<>>)
    /\ structure = <<>>
    /\ parsed = None
    /\ inflight = {}
    /\ done = {}
    /\ candidates = None
    /\ files = {}
    /\ pipeline = <<>>
    /\ written = {}

\* MainSpider.start_requests: the start request is scheduled
Schedule ==
    /\ pc = "start"
    /\ inflight' = {get_start_command.url_info}
    /\ pc' = "crawling"
    /\ UNCHANGED <<config, req, res, result, done, parser_vars, debug_vars, pipeline_vars>>

\* the url_info of the requests parse yields for the RequestUrlCommands
RequestsOf(commands) ==
    {commands[i].url_info : i \in {j \in 1..Len(commands) : commands[j].type = "RequestUrlCommand"}}

\* whether a call of parse with this request and response is the first (1) or
\* a later one (2)
nth_call(url_info, r) ==
    IF \E call \in done : call.req = url_info /\ call.res = r THEN 2 ELSE 1

\* Mutant of Callback: the response is bound in the UrlInfo of the request
\* itself, so that the component of a file_path rule that needs the response
\* is added to the UrlInfo the call was given.
CallbackBindingInPlace(url_info, links) ==
    /\ pc = "crawling"
    /\ url_info \in inflight
    /\ Cardinality(done) < MaxCalls
    /\ LET r == [links |-> links]
           commands == get_url_commands(r, url_info)
           bound == create_response_url_info(url_info.structure_path, url_info, r).url_info
       IN  /\ done' = done \cup {[req |-> [url_info EXCEPT !.file_path = bound.file_path,
                                                            !.trail = bound.trail],
                                   res |-> r, result |-> commands,
                                   nth |-> nth_call(url_info, r)]}
           /\ inflight' = (inflight \ {url_info}) \cup RequestsOf(commands.commands)
    /\ UNCHANGED <<config, pc, req, res, result, parser_vars, debug_vars, pipeline_vars>>

\* Mutant of Callback: parse marks the node it enters as a paging node.
CallbackMarkingNode(url_info, links) ==
    /\ pc = "crawling"
    /\ url_info \in inflight
    /\ Cardinality(done) < MaxCalls
    /\ LET r == [links |-> links]
           commands == get_url_commands(r, url_info)
       IN  /\ done' = done \cup {[req |-> url_info, res |-> r, result |-> commands,
                                   nth |-> nth_call(url_info, r)]}
           /\ inflight' = (inflight \ {url_info}) \cup RequestsOf(commands.commands)
           /\ config' = [config EXCEPT !.tree[url_info.structure_path].paging = TRUE]
    /\ UNCHANGED <<pc, req, res, result, parser_vars, debug_vars, pipeline_vars>>

\* MainSpider.parse, called with the response to any of the requests in flight
Callback(url_info, links) ==
    /\ pc = "crawling"
    /\ url_info \in inflight
    /\ Cardinality(done) < MaxCalls
    /\ LET r == [links |-> links]
           commands == get_url_commands(r, url_info)
       IN  /\ done' = done \cup {[req |-> url_info, res |-> r, result |-> commands,
                                   nth |-> nth_call(url_info, r)]}
           /\ inflight' = (inflight \ {url_info}) \cup RequestsOf(commands.commands)
    /\ UNCHANGED <<config, pc, req, res, result, parser_vars, debug_vars, pipeline_vars>>

ConcurrentNext ==
    \/ Schedule
    \/ \E url_info \in inflight : \E links \in ConcurrentResponses : Callback(url_info, links)
    \/ \E url \in {"u1"} : Simulate(url)

ConcurrentSpec == ConcurrentInit /\ [][ConcurrentNext]_vars

(***************************************************************************)
(* The item pipelines (settings.ITEM_PIPELINES).  The files on disk are a  *)
(* set of [path, content] records with one record per path; an item in the *)
(* pipelines is at the stage that handles it next.  A slot of the          *)
(* pipelines records, beside the item, the item as it was submitted,       *)
(* whether its file existed then, and whether the pipelines had written    *)
(* its file before.                                                        *)
(***************************************************************************)
\* The largest number of items in the pipelines at a time.
MaxItems == 2

Slots == 1..MaxItems

\* settings.ITEM_PIPELINES in the order of the priorities
ITEM_PIPELINES == <<"DropUnneededItemPipeline", "SaveFileContentPipeline", "PrepareItemForFilesPipelines", "FilesPipeline", "SaveDownloadedFilePipeline">>

DownloadUrlItem(url, file_path) == [type |-> "DownloadUrlItem", url |-> url, file_path |-> file_path]

SaveFileContentItem(file_path, file_content) == [type |-> "SaveFileContentItem", file_path |-> file_path, file_content |-> file_content]

ScrapyFilesPipelineItem(file_urls, original_item) == [type |-> "ScrapyFilesPipelineItem", file_urls |-> file_urls, files |-> None, original_item |-> original_item]

\* an item of any other class
OtherItem == [type |-> "Item"]

Items == {DownloadUrlItem("u1", <<"f">>), SaveFileContentItem(<<"f">>, "x"), SaveFileContentItem(<<"g">>, "y"), OtherItem}

\* what a download of a URL can bring
Contents == {"x", "y"}

\* os.path.exists
exists(fs, file_path) == \E f \in fs : f.path = file_path

\* open(file_path, "wb").write(file_content)
write(fs, file_path, file_content) == {f \in fs : f.path # file_path} \cup {[path |-> file_path, content |-> file_content]}

\* shutil.move(src, dst) of a file that exists
move(fs, src, dst) == write({f \in fs : f.path # src}, dst, (CHOOSE f \in fs : f.path = src).content)

\* path.join(download_dir, file_info["path"]): where FilesPipeline stores the file of a URL
downloaded_file_path(file_info_path) == <<"t", "/">> \o file_info_path

\* What process_item gives: the item returned, the files after it, and the exception raised.
Passed(item, fs) == [raised |-> "", item |-> item, files |-> fs]

Stopped(what, item, fs) == [raised |-> what, item |-> item, files |-> fs]

\* Mutant of DropUnneededItemPipeline: only items with file content are dropped.
DropUnneededItemPipelineForContentOnly(item, fs) ==
    IF item.type = "SaveFileContentItem" /\ exists(fs, item.file_path)
    THEN Stopped("DropItem", item, fs)
    ELSE Passed(item, fs)

\* DropUnneededItemPipeline.process_item
DropUnneededItemPipeline(item, fs) ==
    IF item.type \in {"DownloadUrlItem", "SaveFileContentItem"} /\ exists(fs, item.file_path)
    THEN Stopped("DropItem", item, fs)
    ELSE Passed(item, fs)

\* SaveFileContentPipeline.process_item
SaveFileContentPipeline(item, fs) ==
    IF item.type = "SaveFileContentItem"
    THEN Passed(item, write(fs, item.file_path, item.file_content))
    ELSE Passed(item, fs)

\* PrepareItemForFilesPipelines.process_item
PrepareItemForFilesPipelines(item, fs) ==
    IF item.type = "DownloadUrlItem"
    THEN Passed(ScrapyFilesPipelineItem(<<item.url>>, item), fs)
    ELSE Passed(item, fs)

\* What scrapy's FilesPipeline can do with one URL: download it and store
\* the file, find the stored file up to date, or fail.
Outcomes == {[status |-> "downloaded", content |-> c] : c \in Contents} \cup {[status |-> "uptodate"], [status |-> "failed"]}

\* scrapy.pipelines.files.FilesPipeline.process_item: item["files"] holds
\* the file_info of every URL of item["file_urls"] that did not fail.
FilesPipeline(item, fs, outcome) ==
    IF item.type # "ScrapyFilesPipelineItem"
    THEN Passed(item, fs)
    ELSE LET file_info == [path |-> <<item.file_urls[1]>>, status |-> outcome.status]
         IN  CASE outcome.status = "downloaded" ->
                    Passed([item EXCEPT !.files = <<file_info>>],
                             write(fs, downloaded_file_path(file_info.path), outcome.content))
               [] outcome.status = "uptodate" ->
                    Passed([item EXCEPT !.files = <<file_info>>], fs)
               [] OTHER ->
                    Passed([item EXCEPT !.files = <<>>], fs)

\* SaveDownloadedFilePipeline.process_item.  The local variable original_item
\* is assigned only under status == "downloaded", so that "return
\* original_item" raises UnboundLocalError for any other status.
SaveDownloadedFilePipeline(item, fs) ==
    IF item.type # "ScrapyFilesPipelineItem"
    THEN Passed(item, fs)
    ELSE IF Len(item.files) # 1
         THEN Stopped("AssertionError", item, fs)
         ELSE IF item.files[1].status # "downloaded"
              THEN Stopped("UnboundLocalError", item, fs)
              ELSE IF ~exists(fs, downloaded_file_path(item.files[1].path))
                   THEN Stopped("AssertionError", item, fs)
                   ELSE Passed(item.original_item,
                                 move(fs, downloaded_file_path(item.files[1].path), item.original_item.file_path))

PipelineInit ==
    /\ files \in {{}, {[path |-> <<"g">>, content |-> "x"]}}
    /\ pipeline = [s \in Slots |-> None]
    /\ written = {}
    /\ config = [start_url |-> "u0", tree |-> Tree0]
    /\ pc = "start"
    /\ req = None
    /\ res = None
    /\ result = Ok(<<>>)
    /\ structure = <<>>
    /\ parsed = None
    /\ inflight = {}
    /\ done = {}
    /\ candidates = None

\* The spider yields an item and the engine hands it to the first pipeline.
Submit(s, item) ==
    /\ pipeline[s] = None
    /\ pipeline' = [pipeline EXCEPT ![s] =
            [stage |-> 1, state |-> "processing", item |-> item, submitted |-> item,
             existed |-> item.type \in {"DownloadUrlItem", "SaveFileContentItem"} /\ exists(files, item.file_path),
             again |-> item \in written]]
    /\ UNCHANGED <<files, written>>
    /\ UNCHANGED <<crawl_vars, parser_vars, engine_vars, debug_vars>>

\* The engine takes what process_item gave: a dropped or failed item goes no
\* further, a returned item goes to the next pipeline.
Advance(s, r) ==
    /\ pipeline' = [pipeline EXCEPT ![s] =
            CASE r.raised = "DropItem" -> [@ EXCEPT !.state = "dropped"]
              [] r.raised \in {"AssertionError", "UnboundLocalError"} -> [@ EXCEPT !.state = "failed"]
              [] OTHER -> IF @.stage = Len(ITEM_PIPELINES)
                          THEN [@ EXCEPT !.state = "done", !.item = r.item]
                          ELSE [@ EXCEPT !.stage = @ + 1, !.item = r.item]]
    /\ files' = r.files
    /\ UNCHANGED <<crawl_vars, parser_vars, engine_vars, debug_vars>>

\* the pipeline that handles the item of a slot next
AtStage(s, name) ==
    /\ pipeline[s] # None
    /\ pipeline[s].state = "processing"
    /\ ITEM_PIPELINES[pipeline[s].stage] = name

DropUnneeded(s) ==
    /\ AtStage(s, "DropUnneededItemPipeline")
    /\ Advance(s, DropUnneededItemPipeline(pipeline[s].item, files))
    /\ UNCHANGED written

SaveFileContent(s) ==
    /\ AtStage(s, "SaveFileContentPipeline")
    /\ Advance(s, SaveFileContentPipeline(pipeline[s].item, files))
    /\ written' = IF pipeline[s].item.type = "SaveFileContentItem"
                  THEN written \cup {pipeline[s].item} ELSE written

PrepareItemForFiles(s) ==
    /\ AtStage(s, "PrepareItemForFilesPipelines")
    /\ Advance(s, PrepareItemForFilesPipelines(pipeline[s].item, files))
    /\ UNCHANGED written

Files(s, outcome) ==
    /\ AtStage(s, "FilesPipeline")
    /\ outcome.status = "uptodate" =>
            /\ pipeline[s].item.type = "ScrapyFilesPipelineItem"
            /\ exists(files, downloaded_file_path(<<pipeline[s].item.file_urls[1]>>))
    /\ Advance(s, FilesPipeline(pipeline[s].item, files, outcome))
    /\ UNCHANGED written

SaveDownloadedFile(s) ==
    /\ AtStage(s, "SaveDownloadedFilePipeline")
    /\ LET r == SaveDownloadedFilePipeline(pipeline[s].item, files)
       IN  /\ Advance(s, r)
           /\ written' = IF r.raised = "" /\ r.files # files
                         THEN written \cup {r.item} ELSE written

\* The engine is through with an item: it was dropped, it failed or it left the last pipeline.
Release(s) ==
    /\ pipeline[s] # None
    /\ pipeline[s].state # "processing"
    /\ pipeline' = [pipeline EXCEPT ![s] = None]
    /\ UNCHANGED <<files, written>>
    /\ UNCHANGED <<crawl_vars, parser_vars, engine_vars, debug_vars>>

PipelineNext ==
    \/ \E s \in Slots : \E item \in Items : Submit(s, item)
    \/ \E s \in Slots : DropUnneeded(s)
    \/ \E s \in Slots : SaveFileContent(s)
    \/ \E s \in Slots : PrepareItemForFiles(s)
    \/ \E s \in Slots : \E outcome \in Outcomes : Files(s, outcome)
    \/ \E s \in Slots : SaveDownloadedFile(s)
    \/ \E s \in Slots : Release(s)

PipelineSpec == PipelineInit /\ [][PipelineNext]_vars

(***************************************************************************)
(* Properties.  They read the configuration, the request, the response and *)
(* the result of parse, and the following vocabulary, which is drawn from   *)
(* the structure definition itself and not from the command generator.      *)
(***************************************************************************)
\* parse has returned a command list (it did not raise)
Returned == pc = "parsed" /\ result.raised = ""

\* the node the prior UrlInfo's structure path locates
Top == req.structure_path

Cmds == result.commands

CmdIdx == 1..Len(result.commands)

ChildrenOf(p) ==
    {q \in DOMAIN config.tree : Len(q) = Len(p) + 1 /\ SubSeq(q, 1, Len(p)) = p}

ParentOf(q) == SubSeq(q, 1, Len(q) - 1)

Leaf(p) == ChildrenOf(p) = {}

\* the node has a URL matcher (its parent not being the root, it is request-gated)
Gated(q) == config.tree[q].url_matcher # None

Matches(q, u) == Gated(q) /\ u \in config.tree[q].url_matcher.urls

FpNeeds(q) ==
    /\ config.tree[q].file_path_extractor # None
    /\ config.tree[q].file_path_extractor.needs_response

FcNeeds(q) ==
    /\ config.tree[q].file_content_extractor # None
    /\ config.tree[q].file_content_extractor.needs_response

\* the positions of the link elements of the response in the content area of p
RegionIdx(p) ==
    {k \in 1..Len(res.links) :
        config.tree[p].content_node_extractor # None => res.links[k].main}

CandidateUrls(p) == {res.links[k].url : k \in RegionIdx(p)}

\* the position at which u is first discovered in the content area of p
FirstAt(p, u) ==
    CHOOSE k \in RegionIdx(p) :
        /\ res.links[k].url = u
        /\ \A j \in RegionIdx(p) : res.links[j].url = u => k <= j

\* the nodes parse enters: the located node, the root children the current URL
\* is dispatched to, and below a non-root node the children without URL matcher
RECURSIVE Entered(_)
Entered(p) ==
    IF Len(p) <= Len(Top)
    THEN p = Top
    ELSE /\ Entered(ParentOf(p))
         /\ IF ParentOf(p) = <<>> THEN Matches(p, req.url) ELSE ~Gated(p)

\* the node whose candidate links command i was made of
EmitterOf(i) ==
    IF Cmds[i].src.pass = "paging" THEN Cmds[i].src.node ELSE ParentOf(Cmds[i].src.node)

IsFileCommand(c) == c.type \in {"SaveFileContentCommand", "DownloadUrlCommand"}

\* C1: for each candidate link matched by a request-gated child of an entered
\* non-root node, the call emits exactly one command: for a leaf child none of
\* whose file rules needs the response, a SaveFileContentCommand when it has a
\* file_content rule and a DownloadUrlCommand when it has none; otherwise a
\* RequestUrlCommand whose structure path is the child's path.
ExpectedType(c) ==
    IF Leaf(c) /\ ~FpNeeds(c) /\ ~FcNeeds(c)
    THEN IF config.tree[c].file_content_extractor # None
         THEN "SaveFileContentCommand"
         ELSE "DownloadUrlCommand"
    ELSE "RequestUrlCommand"

C1_OneCommandPerMatchedLink ==
    Returned =>
        \A p \in DOMAIN config.tree : (Entered(p) /\ p # <<>> /\ ~Leaf(p)) =>
            \A c \in ChildrenOf(p) : Gated(c) =>
                \A u \in CandidateUrls(p) : Matches(c, u) =>
                    LET I == {i \in CmdIdx : /\ Cmds[i].src.node = c
                                             /\ Cmds[i].src.link = u
                                             /\ Cmds[i].src.pass = "child"}
                    IN  /\ Cardinality(I) = 1
                        /\ \A i \in I :
                              /\ Cmds[i].type = ExpectedType(c)
                              /\ Cmds[i].type = "RequestUrlCommand" =>
                                    Cmds[i].url_info.structure_path = p \o <<c[Len(c)]>>

C1_Witness ==
    /\ Returned
    /\ Top # <<>>
    /\ \E i, j \in CmdIdx :
          /\ Cmds[i].src.pass = "child" /\ Cmds[i].type = "SaveFileContentCommand"
          /\ Cmds[j].src.pass = "child" /\ Cmds[j].type = "RequestUrlCommand"
          /\ Leaf(Cmds[j].src.node)

\* C2: on a non-leaf node the command list is ordered: the paging requests of
\* the node first, one per candidate link its matcher matches, then the
\* commands of each child in declaration order; the paging requests and the
\* commands of one request-gated child are in link-discovery order.
OrderKey(i) ==
    IF Cmds[i].src.pass = "paging" /\ Cmds[i].src.node = Top
    THEN 0
    ELSE 1 + Cmds[i].src.node[Len(Top) + 1]

C2_CommandOrder ==
    (Returned /\ ~Leaf(Top)) =>
        /\ \A i, j \in CmdIdx : i < j => OrderKey(i) <= OrderKey(j)
        /\ \A i, j \in CmdIdx :
              (/\ i < j
               /\ Cmds[i].src.pass \in {"paging", "child"}
               /\ Cmds[i].src.pass = Cmds[j].src.pass
               /\ Cmds[i].src.node = Cmds[j].src.node) =>
                  FirstAt(EmitterOf(i), Cmds[i].src.link)
                      < FirstAt(EmitterOf(j), Cmds[j].src.link)
        /\ \A i \in CmdIdx : Cmds[i].src.pass = "paging" =>
              /\ Cmds[i].type = "RequestUrlCommand"
              /\ config.tree[Cmds[i].src.node].paging
              /\ Cmds[i].src.link \in CandidateUrls(Cmds[i].src.node)
              /\ Matches(Cmds[i].src.node, Cmds[i].src.link)
        /\ config.tree[Top].paging =>
              \A u \in CandidateUrls(Top) : Matches(Top, u) =>
                  Cardinality({i \in CmdIdx : /\ Cmds[i].src.pass = "paging"
                                              /\ Cmds[i].src.node = Top
                                              /\ Cmds[i].src.link = u}) = 1

C2_Witness ==
    /\ Returned
    /\ ~Leaf(Top)
    /\ \E i, j, k \in CmdIdx :
          /\ i < j /\ j < k
          /\ Cmds[i].src.pass = "paging"
          /\ Cmds[j].src.pass = "child"
          /\ Cmds[k].src.pass = "child"
          /\ Cmds[j].src.node = Cmds[k].src.node

\* C3 as stated: the DownloadUrlCommands of a paging node's children come
\* before the RequestUrlCommand for the next page.
C3_DownloadsBeforeNextPage ==
    Returned =>
        \A i, j \in CmdIdx :
            (/\ Cmds[j].src.pass = "paging"
             /\ Cmds[i].type = "DownloadUrlCommand"
             /\ Cmds[i].src.pass = "child"
             /\ ParentOf(Cmds[i].src.node) = Cmds[j].src.node) => i < j

\* C3 as amended: the RequestUrlCommand for the next page of a paging node
\* comes before the DownloadUrlCommands of the node's children.
C3_NextPageBeforeDownloads ==
    Returned =>
        \A i, j \in CmdIdx :
            (/\ Cmds[j].src.pass = "paging"
             /\ Cmds[i].type = "DownloadUrlCommand"
             /\ Cmds[i].src.pass = "child"
             /\ ParentOf(Cmds[i].src.node) = Cmds[j].src.node) => j < i

C3_Witness ==
    /\ Returned
    /\ Top = <<>>
    /\ \E i, j \in CmdIdx :
          /\ Cmds[j].src.pass = "paging"
          /\ Cmds[j].type = "RequestUrlCommand"
          /\ Cmds[i].type = "DownloadUrlCommand"
          /\ Cmds[i].src.pass = "child"
          /\ ParentOf(Cmds[i].src.node) = Cmds[j].src.node

\* C4: every RequestUrlCommand of the paging pass carries the structure path
\* of the paging node being processed: the located node itself, or at the root
\* the root child the current URL was dispatched to; this holds on every page.
C4_PagingKeepsStructurePath ==
    Returned =>
        \A i \in CmdIdx : Cmds[i].src.pass = "paging" =>
            LET sp == Cmds[i].url_info.structure_path
            IN  /\ Cmds[i].type = "RequestUrlCommand"
                /\ sp \in DOMAIN config.tree
                /\ config.tree[sp].paging
                /\ Matches(sp, Cmds[i].url_info.original_url)
                /\ IF Top = <<>>
                   THEN Len(sp) = 1 /\ Matches(sp, req.url)
                   ELSE sp = Top

\* a page reached by a paging request yields a paging request again
C4_Witness ==
    /\ Returned
    /\ Top # <<>>
    /\ config.tree[Top].paging
    /\ req.original_url = "u2"
    /\ \E i \in CmdIdx :
          /\ Cmds[i].src.pass = "paging"
          /\ Cmds[i].url_info.structure_path = Top

\* C5: a response bound at a leaf yields exactly one command, a
\* SaveFileContentCommand whose file_path is the accumulated file path of the
\* bound UrlInfo, whatever links the response contains.
SlashJoin(a, b) == IF a = <<>> THEN b ELSE a \o <<"/">> \o b

BoundFilePath ==
    IF FpNeeds(Top)
    THEN SlashJoin(req.file_path,
                   CallFilePathRule(config.tree[Top].file_path_extractor, req).v)
    ELSE req.file_path

C5_LeafYieldsOneSave ==
    Returned =>
        /\ Leaf(Top) =>
              /\ Len(Cmds) = 1
              /\ Cmds[1].type = "SaveFileContentCommand"
              /\ Cmds[1].file_path = BoundFilePath
        /\ \A p \in DOMAIN config.tree : (Entered(p) /\ Leaf(p)) =>
              LET I == {i \in CmdIdx : Cmds[i].src.node = p}
              IN  /\ Cardinality(I) = 1
                  /\ \A i \in I : Cmds[i].type = "SaveFileContentCommand"

C5_Witness ==
    /\ Returned
    /\ Top # <<>>
    /\ Leaf(Top)
    /\ FpNeeds(Top)
    /\ Len(res.links) = MaxLinks
    /\ \E k \in 1..Len(res.links) : Matches(Top, res.links[k].url)
    /\ Len(Cmds) = 1

\* C6 as stated: at the root, when no child of the root matches the current
\* URL, the call raises the unmatched-start-URL error and returns no command.
C6_UnmatchedStartUrlRaises ==
    (/\ pc = "parsed"
     /\ Top = <<>>
     /\ \A c \in ChildrenOf(<<>>) : ~Matches(c, req.url)) =>
        /\ result.raised = "StartUrlNotMatched"
        /\ result.commands = <<>>

\* C7: at the root a child whose URL matcher does not match the current URL
\* contributes no command: no command is generated in its subtree.
C7_UnmatchedRootChildContributesNothing ==
    (Returned /\ Top = <<>>) =>
        \A c \in ChildrenOf(<<>>) : ~Matches(c, req.url) =>
            \A i \in CmdIdx :
                ~(Len(Cmds[i].src.node) >= 1 /\ Cmds[i].src.node[1] = c[1])

\* a root child that does not match has a child that matches a link of the
\* response, and another root child matches and yields commands
C7_Witness ==
    /\ Returned
    /\ Top = <<>>
    /\ Len(Cmds) > 0
    /\ \E c \in ChildrenOf(<<>>) :
          /\ ~Matches(c, req.url)
          /\ \E g \in ChildrenOf(c) : \E u \in CandidateUrls(c) : Matches(g, u)

\* C8 as stated: when several root children match the start URL, every
\* command comes from the subtree of the first of them.
FirstMatchingRootChild ==
    CHOOSE c \in ChildrenOf(<<>>) :
        /\ Matches(c, req.url)
        /\ \A d \in ChildrenOf(<<>>) : Matches(d, req.url) => c[1] <= d[1]

C8_FirstMatchingRootChildWins ==
    (/\ Returned
     /\ Top = <<>>
     /\ \E c \in ChildrenOf(<<>>) : Matches(c, req.url)) =>
        \A i \in CmdIdx : Cmds[i].src.node[1] = FirstMatchingRootChild[1]

\* C8 as amended: every root child that matches the start URL is processed;
\* the commands are those of the matching children's subtrees, in declaration
\* order of the children.
C8_EveryMatchingRootChildContributes ==
    (Returned /\ Top = <<>> /\ ~Leaf(<<>>)) =>
        /\ \A i \in CmdIdx : Matches(<<Cmds[i].src.node[1]>>, req.url)
        /\ \A i, j \in CmdIdx : i < j => Cmds[i].src.node[1] <= Cmds[j].src.node[1]
        /\ \A c \in ChildrenOf(<<>>) : Matches(c, req.url) =>
              /\ Leaf(c) => \E i \in CmdIdx : Cmds[i].src.node = c
              /\ \A g \in ChildrenOf(c) : \A u \in CandidateUrls(c) :
                    Matches(g, u) =>
                        \E i \in CmdIdx : Cmds[i].src.node = g /\ Cmds[i].src.link = u

C8_Witness ==
    /\ Returned
    /\ Top = <<>>
    /\ ~Leaf(<<>>)
    /\ \E i, j \in CmdIdx : Cmds[i].src.node[1] < Cmds[j].src.node[1]

\* C9: the paging pass and each request-gated child emit at most one command
\* for an absolute URL, however many elements of the content area carry it.
C9_OneCommandPerUrl ==
    Returned =>
        \A i, j \in CmdIdx :
            (/\ Cmds[i].src.pass \in {"paging", "child"}
             /\ Cmds[i].src.pass = Cmds[j].src.pass
             /\ Cmds[i].src.node = Cmds[j].src.node
             /\ Cmds[i].src.link = Cmds[j].src.link) => i = j

\* the same URL in two elements of the content area, and a command for it
C9_Witness ==
    /\ Returned
    /\ \E i \in CmdIdx :
          /\ Cmds[i].src.pass \in {"paging", "child"}
          /\ Cardinality({k \in RegionIdx(EmitterOf(i)) :
                             res.links[k].url = Cmds[i].src.link}) >= 2

\* C10: the file_path of a Save or Download command is the file-path
\* components of the nodes on the path from the root to the command's node, one
\* for each node that has a file_path rule and none for the others, in descent
\* order, joined with "/".
RECURSIVE SlashJoined(_)
SlashJoined(comps) ==
    IF Len(comps) = 0
    THEN <<>>
    ELSE IF Len(comps) = 1
         THEN comps[1]
         ELSE SlashJoined(SubSeq(comps, 1, Len(comps) - 1))
                  \o <<"/">> \o comps[Len(comps)]

NodesWithFilePath(n) ==
    SelectSeq([k \in 1..Len(n) |-> SubSeq(n, 1, k)],
              LAMBDA q : config.tree[q].file_path_extractor # None)

C10_FilePathIsJoinedComponents ==
    Returned =>
        \A i \in CmdIdx : IsFileCommand(Cmds[i]) =>
            LET t == Cmds[i].src.trail
            IN  /\ [k \in 1..Len(t) |-> t[k].node] = NodesWithFilePath(Cmds[i].src.node)
                /\ Cmds[i].file_path = SlashJoined([k \in 1..Len(t) |-> t[k].comp])

C10_Witness ==
    /\ Returned
    /\ \E i \in CmdIdx :
          /\ Cmds[i].type = "DownloadUrlCommand"
          /\ Len(Cmds[i].src.node) = 3
          /\ Len(Cmds[i].src.trail) = 2

(***************************************************************************)
(* Properties of the parser, read off the structure definition.            *)
(***************************************************************************)
RECURSIVE YieldsNodes(_)
RECURSIVE FileContentFollowed(_)
RECURSIVE ElementAfterBranch(_)
RECURSIVE BranchesAreLast(_)

\* parse_structure_list has been applied to the definition
Constructed == pc \in {"constructed", "rejected"}

MediaScrapyErrors ==
    {"file_content can be only in last definition",
     "Once branched structure nodes cannot be merged in a single node"}

\* the definition gives the node it is grafted onto at least one child
YieldsNodes(defs) ==
    /\ Len(defs) > 0
    /\ \/ defs[1].t = "node"
       \/ \E k \in 1..Len(defs[1].lists) : YieldsNodes(defs[1].lists[k])

HasFileContent(el) == el.t = "node" /\ el.node.file_content_extractor # None

\* at some level a node with a file_content rule is followed by a node, or by
\* a branch that grafts children onto it
FileContentFollowed(defs) ==
    \E i \in 1..Len(defs) :
        \/ /\ HasFileContent(defs[i])
           /\ i < Len(defs)
           /\ \/ defs[i + 1].t = "node"
              \/ \E k \in 1..Len(defs[i + 1].lists) : YieldsNodes(defs[i + 1].lists[k])
        \/ \E k \in 1..Len(defs[i].lists) : FileContentFollowed(defs[i].lists[k])

\* at some level an element follows a branch
ElementAfterBranch(defs) ==
    \E i \in 1..Len(defs) :
        \/ defs[i].t = "branch" /\ i < Len(defs)
        \/ \E k \in 1..Len(defs[i].lists) : ElementAfterBranch(defs[i].lists[k])

\* at every level a branch is the last element
BranchesAreLast(defs) ==
    \A i \in 1..Len(defs) :
        defs[i].t = "branch" =>
            /\ i = Len(defs)
            /\ \A k \in 1..Len(defs[i].lists) : BranchesAreLast(defs[i].lists[k])

\* C11: in every tree parse_structure_list returns, a node with a file_content
\* rule has no children; a definition in which a node with a file_content rule
\* is followed by a node, or by a branch that grafts children onto it, is
\* rejected with MediaScrapyError.
C11_FileContentOnlyInLeaves ==
    Constructed =>
        /\ parsed.raised = "" =>
               \A p \in DOMAIN parsed.tree :
                   parsed.tree[p].file_content_extractor # None =>
                       ~\E q \in DOMAIN parsed.tree : IsChildOf(q, p)
        /\ FileContentFollowed(structure) => parsed.raised \in MediaScrapyErrors

\* a node with a file_content rule, then a branch that grafts a child onto it
C11_Witness ==
    /\ Constructed
    /\ Len(structure) = 2
    /\ HasFileContent(structure[1])
    /\ structure[2].t = "branch"
    /\ Len(structure[2].lists) > 0
    /\ YieldsNodes(structure[2].lists[1])
    /\ parsed.raised = "file_content can be only in last definition"

\* C12: a definition in which, at any level, an element follows a branch is
\* rejected with MediaScrapyError; in an accepted definition every branch is
\* the last element of its level.
C12_NothingFollowsABranch ==
    Constructed =>
        /\ ElementAfterBranch(structure) => parsed.raised \in MediaScrapyErrors
        /\ parsed.raised = "" => BranchesAreLast(structure)

\* a branch inside a branch is followed by a node
C12_Witness ==
    /\ Constructed
    /\ Len(structure) = 1
    /\ structure[1].t = "branch"
    /\ Len(structure[1].lists) > 0
    /\ ElementAfterBranch(structure[1].lists[1])
    /\ parsed.raised = "Once branched structure nodes cannot be merged in a single node"

(***************************************************************************)
(* Properties of rule invocation                                           *)
(***************************************************************************)
\* the assertion rule "//a" of p finds no link element in the content area of p
AssertionFails(p) ==
    /\ config.tree[p].assertion_matcher # None
    /\ config.tree[p].assertion_matcher.kind = "has_links"
    /\ RegionIdx(p) = {}

\* C13: when the assertion rule of a node that get_url_commands enters (the
\* located node, or a child entered by root dispatch or pass-through) fails on
\* the bound response, the call raises and returns no commands, whatever
\* commands the links of the response would have given.
C13_FailedAssertionAborts ==
    pc = "parsed" =>
        ((\E p \in DOMAIN config.tree : Entered(p) /\ AssertionFails(p)) =>
            result.raised # "" /\ result.commands = <<>>)

\* a pass-through child's assertion fails after an earlier sibling matched a link
C13_Witness ==
    /\ pc = "parsed"
    /\ result.raised = "AssertionError"
    /\ \E p \in DOMAIN config.tree :
          /\ p # Top
          /\ Len(p) = 2
          /\ Entered(p)
          /\ AssertionFails(p)
          /\ \E q \in ChildrenOf(ParentOf(p)) :
                /\ q[Len(q)] < p[Len(p)]
                /\ \E u \in CandidateUrls(ParentOf(p)) : Matches(q, u)

\* the rule is a function that returns None
ReturnsNone(rule) == rule # None /\ rule.kind = "none"

\* update_url_info_before_request of p invokes a rule that returns None
NoneBeforeRequest(p) ==
    \/ ReturnsNone(config.tree[p].file_path_extractor) /\ ~FpNeeds(p)
    \/ ReturnsNone(config.tree[p].url_converter)

\* binding the response to p, or saving p's content, invokes a rule that returns None
NoneAfterResponse(p) ==
    \/ ReturnsNone(config.tree[p].content_node_extractor)
    \/ ReturnsNone(config.tree[p].file_path_extractor) /\ FpNeeds(p)
    \/ Leaf(p) /\ ReturnsNone(config.tree[p].file_content_extractor)

\* some link of the content area of p matches the URL matcher of q
LinkMatches(p, q) == \E u \in CandidateUrls(p) : Matches(q, u)

\* the call invokes a rule that returns None, unless it raised before
InvokesNoneRule ==
    \E p \in DOMAIN config.tree :
        /\ Entered(p)
        /\ \/ NoneAfterResponse(p)
           \/ p # Top /\ NoneBeforeRequest(p)
           \/ ~Leaf(p) /\ config.tree[p].paging /\ LinkMatches(p, p) /\ NoneBeforeRequest(p)
           \/ \E q \in ChildrenOf(p) :
                 /\ p # <<>>
                 /\ LinkMatches(p, q)
                 /\ \/ NoneBeforeRequest(q)
                    \/ /\ Leaf(q)
                       /\ ~FpNeeds(q)
                       /\ ~FcNeeds(q)
                       /\ ReturnsNone(config.tree[q].file_content_extractor)

\* C14: when a rule invoked in the course of a get_url_commands call (URL
\* converter, content-area extractor, file-path extractor or file-content
\* extractor) returns None, the call raises and returns no commands.
C14_NoneFromRuleAborts ==
    pc = "parsed" => (InvokesNoneRule => result.raised # "" /\ result.commands = <<>>)

\* the as_url rule of a child returns None after an earlier sibling matched a link
C14_Witness ==
    /\ pc = "parsed"
    /\ result.raised = "ReturnNone"
    /\ \E p \in DOMAIN config.tree : \E q \in ChildrenOf(p) : \E o \in ChildrenOf(p) :
          /\ Entered(p)
          /\ p # <<>>
          /\ o[Len(o)] < q[Len(q)]
          /\ LinkMatches(p, o)
          /\ ~NoneBeforeRequest(o)
          /\ LinkMatches(p, q)
          /\ ReturnsNone(config.tree[q].url_converter)

\* the rules of a node
RulesOf(p) ==
    {r \in {config.tree[p].url_converter,
            config.tree[p].content_node_extractor,
            config.tree[p].file_content_extractor,
            config.tree[p].file_path_extractor,
            config.tree[p].assertion_matcher} : r # None}

\* the rule's function declares a named parameter res or content_node
DeclaresResponse(rule) ==
    "res" \in rule.acceptable_named_args \/ "content_node" \in rule.acceptable_named_args

\* C15: a rule's needs_response is true exactly when it was built with
\* can_accept_response and its function declares a named parameter res or
\* content_node; a leaf child whose file_path and file_content rules declare
\* neither parameter is never turned into a RequestUrlCommand.
C15_NeedsResponse ==
    /\ \A p \in DOMAIN config.tree : \A r \in RulesOf(p) :
          r.needs_response <=> (r.can_accept_response /\ DeclaresResponse(r))
    /\ Returned =>
          \A i \in CmdIdx :
              LET q == Cmds[i].url_info.structure_path
              IN  (Cmds[i].type = "RequestUrlCommand" /\ Leaf(q)) =>
                      \E r \in RulesOf(q) :
                          /\ r \in {config.tree[q].file_path_extractor,
                                     config.tree[q].file_content_extractor}
                          /\ DeclaresResponse(r)

\* a leaf child with a file_path rule that declares neither parameter matched a
\* link, in a configuration with an as_url rule that declares res
C15_Witness ==
    /\ Returned
    /\ \E p \in DOMAIN config.tree : \E r \in RulesOf(p) :
          ~r.can_accept_response /\ DeclaresResponse(r)
    /\ \E i \in CmdIdx :
          /\ Cmds[i].src.pass = "child"
          /\ Leaf(Cmds[i].src.node)
          /\ config.tree[Cmds[i].src.node].file_path_extractor # None
          /\ ~DeclaresResponse(config.tree[Cmds[i].src.node].file_path_extractor)
          /\ Cmds[i].type = "DownloadUrlCommand"

C17_RequestUrlIsUrlToFetch ==
    Returned =>
        \A i \in CmdIdx :
            Cmds[i].type = "RequestUrlCommand" => Cmds[i].url = Cmds[i].url_info.url

\* C18: get_start_command returns a RequestUrlCommand whose url is the configured
\* start_url and whose url_info has an empty structure_path; the start request
\* carries that url_info.
C18_StartCommand ==
    [][pc = "start" =>
          /\ get_start_command.type = "RequestUrlCommand"
          /\ get_start_command.url = config.start_url
          /\ get_start_command.url_info.structure_path = <<>>
          /\ req' = get_start_command.url_info
          /\ req'.url = config.start_url
          /\ req'.structure_path = <<>>]_vars

\* the start request of a configuration whose start URL is "u1" has been made
C18_Witness ==
    /\ pc = "requested"
    /\ config.start_url = "u1"
    /\ req.url = "u1"
    /\ req.structure_path = <<>>
    /\ DOMAIN config.tree # {<<>>}


\* a slot holds an item
Busy(s) == pipeline[s] # None

\* the two classes of items that name a file to make
NamesFile(item) == item.type \in {"DownloadUrlItem", "SaveFileContentItem"}

\* a step in which the first pipeline handles the item of slot s
FirstPipelineHandles(s) ==
    /\ Busy(s)
    /\ pipeline[s].state = "processing"
    /\ pipeline[s].stage = 1
    /\ pipeline'[s] # pipeline[s]

\* C19: the first pipeline to handle an item is DropUnneededItemPipeline; it
\* drops a DownloadUrlItem or SaveFileContentItem whose file_path exists and
\* hands every other item unchanged to the next pipeline, changing no file.
\* So an item whose file existed when it was submitted is handled by no
\* later pipeline, the file of an item the pipelines have written exists,
\* and no step on an item submitted again after that changes any file.
C19_DropsItemsWhoseFileExists ==
    /\ ITEM_PIPELINES[1] = "DropUnneededItemPipeline"
    /\ [][\A s \in Slots : FirstPipelineHandles(s) =>
            /\ files' = files
            /\ IF NamesFile(pipeline[s].item) /\ exists(files, pipeline[s].item.file_path)
               THEN pipeline'[s] = [pipeline[s] EXCEPT !.state = "dropped"]
               ELSE pipeline'[s] = [pipeline[s] EXCEPT !.stage = 2]]_vars
    /\ [](\A s \in Slots : Busy(s) /\ pipeline[s].existed =>
            /\ pipeline[s].stage = 1
            /\ pipeline[s].item = pipeline[s].submitted)
    /\ [](\A item \in written : exists(files, item.file_path))
    /\ [](\A s \in Slots : Busy(s) /\ pipeline[s].again => pipeline[s].existed)
    /\ [][\A s \in Slots : Busy(s) /\ pipeline[s].again /\ pipeline'[s] # pipeline[s] => files' = files]_vars

\* A downloaded item is submitted again after its file was moved into place, and is dropped.
C19_Witness ==
    \E s \in Slots :
        /\ Busy(s)
        /\ pipeline[s].again
        /\ pipeline[s].submitted.type = "DownloadUrlItem"
        /\ pipeline[s].state = "dropped"

\* the path of the ancestor of a node at depth n (the node itself at depth Len(path))
Ancestor(path, n) == SubSeq(path, 1, n)

\* A node is a candidate for a URL when it or an ancestor of it, the root
\* apart, has a URL matcher that matches the URL, and every node from below
\* that one down to the node itself has no URL matcher.
IsCandidate(path, url) ==
    \E n \in 1..Len(path) :
        /\ ~needs_no_request(Ancestor(path, n))
        /\ match_url(Ancestor(path, n), url).is_url_matched
        /\ \A m \in (n + 1)..Len(path) : needs_no_request(Ancestor(path, m))

\* depth-first pre-order of two different nodes: an ancestor comes before
\* its descendants, and otherwise the earlier sibling's subtree comes first
PreOrderBefore(p, q) ==
    \/ Len(p) < Len(q) /\ Ancestor(q, Len(p)) = p
    \/ \E i \in 1..Len(p) :
        /\ i <= Len(q)
        /\ Ancestor(p, i - 1) = Ancestor(q, i - 1)
        /\ p[i] < q[i]

\* get_simulated_command_candidates_for_url was called and returned a list
Simulated == candidates # None /\ candidates.raised = ""

\* the structure path of the k-th candidate returned
CandidatePath(k) == candidates.candidates[k].command.url_info.structure_path

\* C20: when get_simulated_command_candidates_for_url(url) returns, every
\* pair returned is a RequestUrlCommand whose url_info.structure_path is the
\* path of a non-root candidate node, paired with the source of that node;
\* every candidate node of the tree has exactly one pair; the pairs are in
\* depth-first pre-order of their nodes; and the list is empty when no node
\* is a candidate.
C20_SimulatedCandidates ==
    Simulated =>
        LET n == Len(candidates.candidates)
            url == candidates.url
        IN  /\ \A k \in 1..n :
                /\ candidates.candidates[k].command.type = "RequestUrlCommand"
                /\ CandidatePath(k) # <<>>
                /\ node_exists(CandidatePath(k))
                /\ IsCandidate(CandidatePath(k), url)
                /\ candidates.candidates[k].source = config.tree[CandidatePath(k)]
            /\ \A path \in DOMAIN config.tree :
                IsCandidate(path, url) => Cardinality({k \in 1..n : CandidatePath(k) = path}) = 1
            /\ \A k \in 1..n : \A l \in (k + 1)..n : PreOrderBefore(CandidatePath(k), CandidatePath(l))
            /\ (\A path \in DOMAIN config.tree : ~IsCandidate(path, url)) => n = 0

\* A URL is simulated against a tree in which a node with a matcher and a
\* child of it without a matcher are candidates and another node is not.
C20_Witness ==
    /\ Simulated
    /\ \E k \in 1..Len(candidates.candidates) : \E l \in 1..Len(candidates.candidates) :
        /\ ~needs_no_request(CandidatePath(k))
        /\ needs_no_request(CandidatePath(l))
        /\ Ancestor(CandidatePath(l), Len(CandidatePath(l)) - 1) = CandidatePath(k)
    /\ \E path \in DOMAIN config.tree : path # <<>> /\ ~IsCandidate(path, candidates.url)

(***************************************************************************)
(* Properties of the file path and the descent of get_url_commands.        *)
(***************************************************************************)
\* the commands of the paging pass
PagingIdx == {i \in CmdIdx : Cmds[i].src.pass = "paging"}

\* the components the request's UrlInfo got from the nodes above node p, joined
AccumulatedAbove(p) ==
    LET above == SelectSeq(req.trail, LAMBDA e : Len(e.node) < Len(p))
    IN  SlashJoined([k \in 1..Len(above) |-> above[k].comp])

\* the component the file_path rule of node p gives for a link, from the URL alone
ComponentFromUrl(p, url, url_match) ==
    CallFilePathRule(config.tree[p].file_path_extractor, [url |-> url, url_match |-> url_match]).v

\* C21: the UrlInfo of a next-page RequestUrlCommand of a paging node with a
\* file_path rule has as file_path the path accumulated above the paging
\* node, joined with the next page's component when the rule needs no
\* response, and alone when the rule needs the response; without a
\* file_path rule the file_path is that of the page processed.
C21_PagingReplacesComponent ==
    Returned =>
        \A i \in PagingIdx :
            LET next_url_info == Cmds[i].url_info
                p == next_url_info.structure_path
                above == AccumulatedAbove(p)
            IN  IF config.tree[p].file_path_extractor = None
                THEN next_url_info.file_path = req.file_path
                ELSE IF FpNeeds(p)
                     THEN next_url_info.file_path = above
                     ELSE next_url_info.file_path =
                              SlashJoin(above, ComponentFromUrl(p, next_url_info.original_url,
                                                                next_url_info.url_match))

\* A page of a paging node below a node with a file_path rule links to the
\* next page; the paging node's own component comes from the URL.
C21_Witness ==
    /\ Returned
    /\ \E i \in PagingIdx :
        /\ Len(Cmds[i].url_info.structure_path) = 2
        /\ config.tree[Cmds[i].url_info.structure_path].file_path_extractor # None
        /\ ~FpNeeds(Cmds[i].url_info.structure_path)
        /\ AccumulatedAbove(Cmds[i].url_info.structure_path) # <<>>
        /\ Cmds[i].url_info.original_url # req.original_url

\* node q is node p or lies below it
Under(p, q) == Len(q) >= Len(p) /\ SubSeq(q, 1, Len(p)) = p

\* a UrlInfo and a command as the program holds them
PlainUrlInfo(url_info) ==
    [url |-> url_info.url, original_url |-> url_info.original_url,
     url_match |-> url_info.url_match, file_path |-> url_info.file_path,
     structure_path |-> url_info.structure_path]

PlainCommand(c) ==
    CASE c.type = "RequestUrlCommand" ->
            [type |-> c.type, url |-> c.url, url_info |-> PlainUrlInfo(c.url_info)]
      [] c.type = "DownloadUrlCommand" ->
            [type |-> c.type, url |-> c.url, file_path |-> c.file_path]
      [] OTHER ->
            [type |-> c.type, url |-> c.url, file_path |-> c.file_path,
             file_content |-> c.file_content]

PlainCommands(commands) == [k \in 1..Len(commands) |-> PlainCommand(commands[k])]

\* the commands of the call that were made in the subtree of node c
CommandsUnder(c) == SelectSeq(Cmds, LAMBDA cmd : Under(c, cmd.src.node))

\* The UrlInfo a child c without URL matcher is entered with: the url, the
\* url_match and the file path of the response bound to its parent, the
\* child's own rules applied to them, and the child's structure path.
Handed(c) ==
    LET parent == [url |-> req.url, url_match |-> req.url_match]
        node == config.tree[c]
    IN  [url |-> IF node.url_converter = None
                 THEN req.url
                 ELSE CallUrlConverterRule(node.url_converter, parent).v,
         original_url |-> req.original_url,
         url_match |-> req.url_match,
         file_path |-> IF node.file_path_extractor # None /\ ~FpNeeds(c)
                       THEN SlashJoin(BoundFilePath, ComponentFromUrl(c, req.url, req.url_match))
                       ELSE BoundFilePath,
         structure_path |-> Top \o <<c[Len(c)]>>,
         trail |-> <<>>]

\* C22: a child without URL matcher of the non-root node a response is
\* bound to is processed in the same call, whatever the links: the commands
\* made in its subtree are those get_url_commands makes of the same response
\* and a UrlInfo with the parent's url, url_match and accumulated file path
\* and the child's structure path; they follow the paging commands and the
\* commands of the earlier children and precede those of the later children.
C22_PassThroughChild ==
    (Returned /\ Top # <<>>) =>
        \A c \in ChildrenOf(Top) : ~Gated(c) =>
            /\ get_url_commands(res, Handed(c)).raised = ""
            /\ PlainCommands(CommandsUnder(c)) = PlainCommands(get_url_commands(res, Handed(c)).commands)
            /\ \A a \in CmdIdx : \A b \in CmdIdx :
                (Under(c, Cmds[a].src.node) /\ ~Under(c, Cmds[b].src.node)) =>
                    (a < b <=> (Cmds[b].src.pass # "paging" /\ Cmds[b].src.node[Len(c)] > c[Len(c)]))

\* A page with links is bound to a node with a file path whose first child
\* has a URL matcher and whose second child has none but has rules of its
\* own; both children give commands.
C22_Witness ==
    /\ Returned
    /\ Top # <<>>
    /\ BoundFilePath # <<>>
    /\ req.url_match # None
    /\ \E c \in ChildrenOf(Top) :
        /\ ~Gated(c)
        /\ c[Len(c)] = 1
        /\ config.tree[c].url_converter # None
        /\ CommandsUnder(c) # <<>>
        /\ \E i \in CmdIdx : Cmds[i].src.pass = "child" /\ ~Under(c, Cmds[i].src.node)

\* the commands a pass made of the candidate link u for node q
CommandsFor(pass, q, u) ==
    {i \in CmdIdx : Cmds[i].src.pass = pass /\ Cmds[i].src.node = q /\ Cmds[i].src.link = u}

\* the nodes whose candidate links the call looks at
LinkReaders == {p \in DOMAIN config.tree : p # <<>> /\ Entered(p) /\ ~Leaf(p)}

\* C23: for every node whose candidate links the call looks at and every
\* candidate link, the paging pass makes exactly one RequestUrlCommand when
\* the node is a paging node whose matcher matches the link, and every child
\* with a URL matcher that matches the link makes exactly one command,
\* whatever else the link matches.
C23_PassesAreIndependent ==
    Returned =>
        \A p \in LinkReaders : \A u \in CandidateUrls(p) :
            /\ (config.tree[p].paging /\ Matches(p, u)) =>
                  /\ Cardinality(CommandsFor("paging", p, u)) = 1
                  /\ \A i \in CommandsFor("paging", p, u) :
                        /\ Cmds[i].type = "RequestUrlCommand"
                        /\ Cmds[i].url_info.structure_path = p
                        /\ Cmds[i].url_info.original_url = u
            /\ \A c \in ChildrenOf(p) : Matches(c, u) =>
                  Cardinality(CommandsFor("child", c, u)) = 1

\* A page of a paging node holds a link that the node's own matcher and the
\* matchers of two of its children match.
C23_Witness ==
    /\ Returned
    /\ \E p \in LinkReaders : \E u \in CandidateUrls(p) :
        /\ config.tree[p].paging
        /\ Matches(p, u)
        /\ Cardinality({c \in ChildrenOf(p) : Matches(c, u)}) = 2
        /\ Cardinality({i \in CmdIdx : Cmds[i].src.link = u}) = 3

\* what the matcher of node c returns for a link it matches
MatchOf(c, u) == IF config.tree[c].url_matcher.regex THEN Match(u) ELSE None

\* what the as_url rule of node c makes of a link
ConvertedUrl(c, u) ==
    CallUrlConverterRule(config.tree[c].url_converter, [url |-> u, url_match |-> MatchOf(c, u)]).v

\* the file path a command carries
FilePathOf(cmd) == IF cmd.type = "RequestUrlCommand" THEN cmd.url_info.file_path ELSE cmd.file_path

\* path ends with the component
EndsWith(path, component) ==
    /\ Len(component) <= Len(path)
    /\ SubSeq(path, Len(path) - Len(component) + 1, Len(path)) = component
    /\ Len(component) < Len(path) => path[Len(path) - Len(component)] = "/"

\* the commands made of links matched by a child that has an as_url rule
ConvertedIdx ==
    {i \in CmdIdx : Cmds[i].src.pass = "child" /\ config.tree[Cmds[i].src.node].url_converter # None}

\* C24: a command made of a link matched by a child with an as_url rule
\* carries the converted URL when it is a DownloadUrlCommand or a
\* RequestUrlCommand; when the child's file_path rule needs no response, its
\* component is what the rule gives for the link URL and its match; when
\* its file_content rule needs no response, the content is what the rule
\* gives for the converted URL.
C24_ConversionAfterFilePath ==
    Returned =>
        \A i \in ConvertedIdx :
            LET c == Cmds[i].src.node
                u == Cmds[i].src.link
            IN  /\ Cmds[i].type \in {"DownloadUrlCommand", "RequestUrlCommand"} =>
                      Cmds[i].url = ConvertedUrl(c, u)
                /\ Cmds[i].type = "RequestUrlCommand" =>
                      /\ Cmds[i].url_info.url = ConvertedUrl(c, u)
                      /\ Cmds[i].url_info.original_url = u
                /\ (config.tree[c].file_path_extractor # None /\ ~FpNeeds(c)) =>
                      EndsWith(FilePathOf(Cmds[i]), ComponentFromUrl(c, u, MatchOf(c, u)))
                /\ Cmds[i].type = "SaveFileContentCommand" =>
                      Cmds[i].file_content =
                          CallFileContentRule(config.tree[c].file_content_extractor,
                                              [url |-> ConvertedUrl(c, u)]).v

\* A page bound to a node with a file path links to a URL that a leaf child
\* converts; the child takes its file path from the URL.
C24_Witness ==
    /\ Returned
    /\ BoundFilePath # <<>>
    /\ \E i \in ConvertedIdx :
        /\ Cmds[i].type = "DownloadUrlCommand"
        /\ config.tree[Cmds[i].src.node].file_path_extractor.kind = "url"
        /\ Cmds[i].url # Cmds[i].src.link

\* the commands made of candidate links
LinkIdx == {i \in CmdIdx : Cmds[i].src.pass \in {"paging", "child"}}

\* the URLs of all link elements of the response
DocumentUrls == {res.links[k].url : k \in 1..Len(res.links)}

RequestIdx == {i \in CmdIdx : Cmds[i].type = "RequestUrlCommand"}

\* the length of the longest structure path of the tree
TreeDepth == CHOOSE d \in {Len(p) : p \in DOMAIN config.tree} : \A p \in DOMAIN config.tree : Len(p) <= d

\* C26: the structure path of the start request and of every request made
\* of an emitted RequestUrlCommand names a node of the tree; the path of a
\* RequestUrlCommand is that of the node whose links were processed when it
\* comes from the paging pass and that path with one index more when it
\* comes from a child; and from a request to any request made of its
\* commands the path is extended or kept, never longer than the tree is deep.
C26_StructurePathsResolve ==
    /\ [](req # None => node_exists(req.structure_path) /\ Len(req.structure_path) <= TreeDepth)
    /\ [](Returned => \A i \in RequestIdx :
            LET sp == Cmds[i].url_info.structure_path
            IN  /\ node_exists(sp)
                /\ Under(Top, sp)
                /\ Entered(EmitterOf(i))
                /\ IF Cmds[i].src.pass = "paging"
                   THEN sp = EmitterOf(i)
                   ELSE ParentOf(sp) = EmitterOf(i))
    /\ [][(pc = "parsed" /\ pc' = "requested") =>
            /\ Under(req.structure_path, req'.structure_path)
            /\ Len(req'.structure_path) >= Len(req.structure_path)]_vars

\* A chain of requests has reached a node three levels below the root, and
\* the response bound there gives further requests.
C26_Witness ==
    /\ Returned
    /\ Len(Top) = 2
    /\ TreeDepth = 3
    /\ \E i \in RequestIdx : Len(Cmds[i].url_info.structure_path) = 3
    /\ \E i \in RequestIdx : Cmds[i].url_info.structure_path = Top

\* the response has come and is bound to the node of the request
Bound == create_response_url_info(Top, req, res)

\* the number of components of a file path
Components(file_path) ==
    IF file_path = <<>>
    THEN 0
    ELSE 1 + Cardinality({k \in 1..Len(file_path) : file_path[k] = "/"})

\* the nodes that contributed to a file path, and what they contributed
Contributors(trail) == [k \in 1..Len(trail) |-> trail[k].node]

Contributions(trail) == [k \in 1..Len(trail) |-> trail[k].comp]

\* the nodes with a file_path rule from the root to node n, n left out when
\* its rule needs the response
NodesWithFilePathBeforeResponse(n) ==
    SelectSeq(NodesWithFilePath(n), LAMBDA q : q # n \/ ~FpNeeds(n))

\* C27: the file path of a response bound to a node holds one component for
\* each node with a file_path rule from the root to the node, in that order,
\* and nothing else; this holds for the node of the request, for the leaves
\* entered in the same call, and, the component that needs the response
\* apart, for the UrlInfo of every RequestUrlCommand, paging requests
\* included.
C27_OneComponentPerNode ==
    /\ (pc \in {"responded", "parsed"} /\ Bound.raised = "") =>
          /\ Contributors(Bound.url_info.trail) = NodesWithFilePath(Top)
          /\ Bound.url_info.file_path = SlashJoined(Contributions(Bound.url_info.trail))
          /\ Components(Bound.url_info.file_path) = Len(NodesWithFilePath(Top))
    /\ Returned =>
          /\ \A i \in CmdIdx : Cmds[i].type = "SaveFileContentCommand" /\ Cmds[i].src.pass = "leaf" =>
                /\ Contributors(Cmds[i].src.trail) = NodesWithFilePath(Cmds[i].src.node)
                /\ Cmds[i].file_path = SlashJoined(Contributions(Cmds[i].src.trail))
                /\ Components(Cmds[i].file_path) = Len(NodesWithFilePath(Cmds[i].src.node))
          /\ \A i \in RequestIdx :
                LET url_info == Cmds[i].url_info
                IN  /\ Contributors(url_info.trail) = NodesWithFilePathBeforeResponse(url_info.structure_path)
                    /\ url_info.file_path = SlashJoined(Contributions(url_info.trail))
                    /\ Components(url_info.file_path) = Len(NodesWithFilePathBeforeResponse(url_info.structure_path))

\* A page reached by a paging request is bound to a paging node that has a
\* file_path rule and lies below a node with a file_path rule, and links to
\* a next page again.
C27_Witness ==
    /\ pc = "parsed"
    /\ Returned
    /\ Len(Top) = 2
    /\ config.tree[Top].paging
    /\ req.original_url = "u2"
    /\ Len(NodesWithFilePath(Top)) = 2
    /\ PagingIdx # {}

PagingPassCommands ==
    PagingLoop(Bound.url_info, Top, get_links(Bound.url_info.content_node), 1, <<>>)

\* what the walk of the child of the node of the request at structure_index makes
ChildCommands(structure_index) ==
    ChildStep(Bound.url_info, Top, get_links(Bound.url_info.content_node), structure_index)

\* C29: a call of get_url_commands that raises returns no command, whatever
\* the paging pass and the children walked before the failure made, and no
\* request is made from a call that raised.
C29_NoPartialCommandList ==
    /\ [](pc = "parsed" /\ result.raised # "" => result.commands = <<>>)
    /\ [][pc = "parsed" /\ pc' = "requested" => result.raised = ""]_vars

\* The call raised at the second child of a paging node after the paging
\* pass and the first child had made commands.
C29_Witness ==
    /\ pc = "parsed"
    /\ result.raised # ""
    /\ Bound.raised = ""
    /\ config.tree[Top].paging
    /\ PagingPassCommands.raised = ""
    /\ PagingPassCommands.commands # <<>>
    /\ NumChildren(Top) = 2
    /\ ChildCommands(0).raised = ""
    /\ ChildCommands(0).commands # <<>>
    /\ ChildCommands(1).raised # ""

\* C30: SaveDownloadedFilePipeline.process_item returns, for every
\* ScrapyFilesPipelineItem, the DownloadUrlItem it wraps, and moves the
\* downloaded file to the file_path of that item exactly when the status of
\* the file is "downloaded"; it returns an item of any other type as it is and
\* leaves the files as they are.
C30_ReturnsOriginalItem ==
    [][\A s \in Slots :
          (AtStage(s, "SaveDownloadedFilePipeline") /\ pipeline'[s] # pipeline[s]) =>
              LET item == pipeline[s].item
              IN  IF item.type = "ScrapyFilesPipelineItem"
                  THEN /\ pipeline'[s].state = "done"
                       /\ pipeline'[s].item = item.original_item
                       /\ IF Len(item.files) = 1 /\ item.files[1].status = "downloaded"
                          THEN files' = move(files, downloaded_file_path(item.files[1].path),
                                             item.original_item.file_path)
                          ELSE files' = files
                  ELSE /\ pipeline'[s].state = "done"
                       /\ pipeline'[s].item = item
                       /\ files' = files]_vars
====
